---- MODULE Spec2Model ----
(***************************************************************************)
(* Model of the bulk directory converter of markitdown                     *)
(* (packages/markitdown/src/markitdown/bulk_converter/_bulk.py).           *)
(*                                                                         *)
(* Strings (file names, extensions) are tuples of one-character strings,   *)
(* so that pathlib's suffix/stem, str.lower, str.lstrip and the regular    *)
(* expression of _unique_path are computed character by character.         *)
(* A path is a tuple of names relative to its root (the source root for    *)
(* source paths, the destination root for output paths).  The destination  *)
(* root lies outside the source root (the default is a sibling directory), *)
(* and the source tree does not change while a run is in progress.         *)
(***************************************************************************)
EXTENDS Integers, Sequences, FiniteSets, TLC

\* ------------------------------------------------------------------ bounds
\* Largest number of files in a source tree.
MaxFiles == 2
\* Number of consecutive bulk_convert runs against the same destination.
MaxRuns == 2
\* Largest number in a " (n)" suffix of the names given to _unique_path, and
\* largest number of entries in the directory it looks at.
MaxSuffix == 2
MaxExisting == 3
\* Largest number of outcomes in a BulkResult handed to _make_report.
MaxOutcomes == 3

\* ------------------------------------------------------------- characters
UPPER == <<"A", "B", "C", "D", "E", "F", "G", "H", "I", "J", "K", "L", "M",
           "N", "O", "P", "Q", "R", "S", "T", "U", "V", "W", "X", "Y", "Z">>
LOWER == <<"a", "b", "c", "d", "e", "f", "g", "h", "i", "j", "k", "l", "m",
           "n", "o", "p", "q", "r", "s", "t", "u", "v", "w", "x", "y", "z">>
DIGITS == <<"0", "1", "2", "3", "4", "5", "6", "7", "8", "9">>

IsDigit(c) == \E i \in DOMAIN DIGITS : DIGITS[i] = c

\* str.lower() on one character.
LowerChar(c) ==
    IF \E i \in DOMAIN UPPER : UPPER[i] = c
    THEN LOWER[CHOOSE i \in DOMAIN UPPER : UPPER[i] = c]
    ELSE c

\* str.lower()
Lower(s) == [i \in DOMAIN s |-> LowerChar(s[i])]

\* str.lstrip(".") : drops every leading dot.
RECURSIVE LStripDot(_)
LStripDot(s) ==
    IF s # <<>> /\ Head(s) = "." THEN LStripDot(Tail(s)) ELSE s

\* str.startswith(".")
StartsWithDot(s) == s # <<>> /\ Head(s) = "."

\* str(i) for a natural number: its decimal digits.
RECURSIVE Str(_)
Str(i) ==
    IF i < 10 THEN <<DIGITS[i + 1]>>
    ELSE Str(i \div 10) \o <<DIGITS[(i % 10) + 1]>>

\* str.rfind(".") as a 1-based index, 0 when there is no dot.
RFindDot(s) ==
    IF \E i \in DOMAIN s : s[i] = "."
    THEN CHOOSE i \in DOMAIN s : s[i] = "." /\ \A j \in DOMAIN s : s[j] = "." => j <= i
    ELSE 0

\* ------------------------------------------------------------- pathlib
\* PurePath.suffix of a name: from the last dot, unless that dot is the
\* first or the last character.
PathSuffix(name) ==
    LET i == RFindDot(name)
    IN  IF 1 < i /\ i < Len(name) THEN SubSeq(name, i, Len(name)) ELSE <<>>

\* PurePath.stem of a name.
PathStem(name) ==
    LET i == RFindDot(name)
    IN  IF 1 < i /\ i < Len(name) THEN SubSeq(name, 1, i - 1) ELSE name

\* Path.name, Path.parent
PathName(p) == p[Len(p)]
PathParent(p) == SubSeq(p, 1, Len(p) - 1)

\* PurePath.with_suffix(sfx): the last component's suffix replaced.
WithSuffix(p, sfx) == PathParent(p) \o <<PathStem(PathName(p)) \o sfx>>

DotMd == <<".", "m", "d">>
DotTmp == <<".", "t", "m", "p">>

\* _is_hidden / the d.startswith(".") tests of the walks.
is_hidden(name) == StartsWithDot(name)

\* _ext_of without .lower().
ext_of_case_sensitive(p) == LStripDot(PathSuffix(PathName(p)))

\* _ext_of(path) = path.suffix.lower().lstrip(".")
ext_of(p) == LStripDot(Lower(PathSuffix(PathName(p))))

\* _derive_output_path(src, root, dest_root): src relative to root, re-rooted
\* under dest_root, suffix replaced by ".md".
derive_output_path(src) == WithSuffix(src, DotMd)

\* The regular expression r" \((\d+)\)$" searched in stem: the 1-based index
\* of the match's first character (the space), 0 when it does not match.
SuffixMatchStart(stem) ==
    LET n == Len(stem)
        \* first index of the run of digits that ends at n - 1
        IsRunStart(j) == /\ j <= n - 1
                         /\ \A k \in j..(n - 1) : IsDigit(stem[k])
                         /\ (j = 1 \/ ~IsDigit(stem[j - 1]))
    IN  IF n >= 4 /\ stem[n] = ")" /\ \E j \in 3..(n - 1) :
                                         /\ IsRunStart(j)
                                         /\ stem[j - 1] = "("
                                         /\ stem[j - 2] = " "
        THEN (CHOOSE j \in 3..(n - 1) : IsRunStart(j)) - 2
        ELSE 0

\* Path.exists() on the destination tree: a file or a directory is there.
Exists(p, files, dirs) == p \in files \/ p \in dirs

\* The numbered candidate of _unique_path's loop.
Numbered(parent, base_stem, i, suffix) ==
    parent \o <<base_stem \o <<" ", "(">> \o Str(i) \o <<")">> \o suffix>>

\* The loop of lines 108-112 without the test of line 110.
UniqueFrom_unchecked(parent, base_stem, suffix, i, files, dirs) ==
    Numbered(parent, base_stem, i, suffix)

\* _unique_path(p): p if it does not exist, else the first "base (i)suffix"
\* that does not exist, i = 1, 2, ...
RECURSIVE UniqueFrom(_, _, _, _, _, _)
UniqueFrom(parent, base_stem, suffix, i, files, dirs) ==
    LET cand == Numbered(parent, base_stem, i, suffix)
    IN  IF ~Exists(cand, files, dirs) THEN cand
        ELSE UniqueFrom(parent, base_stem, suffix, i + 1, files, dirs)

\* _unique_path without lines 105-107: the suffix is appended to the whole stem.
unique_path_keeps_suffix(p, files, dirs) ==
    IF ~Exists(p, files, dirs) THEN p
    ELSE UniqueFrom(PathParent(p), PathStem(PathName(p)), PathSuffix(PathName(p)),
                    1, files, dirs)

unique_path(p, files, dirs) ==
    IF ~Exists(p, files, dirs) THEN p
    ELSE LET stem == PathStem(PathName(p))
             suffix == PathSuffix(PathName(p))
             m == SuffixMatchStart(stem)
             base_stem == IF m > 0 THEN SubSeq(stem, 1, m - 1) ELSE stem
         IN  UniqueFrom(PathParent(p), base_stem, suffix, 1, files, dirs)

\* _count_words_and_headings(markdown).  A Markdown text is a tuple of lines,
\* a line the tuple of its whitespace-separated tokens, a token a string of
\* characters: words = number of tokens, headings = number of lines whose
\* first non-blank character is "#".
RECURSIVE SumLens(_)
SumLens(lines) ==
    IF lines = <<>> THEN 0 ELSE Len(Head(lines)) + SumLens(Tail(lines))

count_words_and_headings(markdown) ==
    [words |-> SumLens(markdown),
     headings |-> Cardinality({i \in DOMAIN markdown :
                     /\ markdown[i] # <<>>
                     /\ markdown[i][1] # <<>>
                     /\ markdown[i][1][1] = "#"})]

\* ------------------------------------------------------- value universe
\* Absent values (Python's None) of the optional fields.
NonePath == <<>>
NoneStr == "<None>"
NoneInt == -1

\* BulkConvertThresholds' defaults.
DefaultMaxDirs == 16
DefaultMaxFiles == 128
DefaultMaxBytes == 300 * 1024 * 1024
DefaultThresholds ==
    [max_dirs |-> DefaultMaxDirs, max_files |-> DefaultMaxFiles,
     max_bytes |-> DefaultMaxBytes]

\* File and directory names used in the source trees.
N_f_pdf == <<"f", ".", "p", "d", "f">>
N_f_txt == <<"f", ".", "t", "x", "t">>
N_g_Docx == <<"g", ".", "D", "o", "c", "x">>
N_f1_pdf == <<"f", " ", "(", "1", ")", ".", "p", "d", "f">>
N_hid_pdf == <<".", "g", ".", "p", "d", "f">>
N_a == <<"a">>
N_b == <<"b">>
N_hid == <<".", "h">>
\* Names of files that may already be in the destination.
N_f_md == <<"f", ".", "m", "d">>
N_f1_md == <<"f", " ", "(", "1", ")", ".", "m", "d">>
\* The report's fixed file name.
N_report == <<"p", "r", "o", "c", "e", "s", "s", "_", "r", "e", "p", "o", "r", "t",
              ".", "m", "d">>

\* A source file whose output takes the report's name.
N_report_txt == <<"p", "r", "o", "c", "e", "s", "s", "_", "r", "e", "p", "o", "r", "t",
                  ".", "t", "x", "t">>

\* The order in which a directory listing (os.scandir, used by os.walk)
\* returns names: this sequence, or its reverse.
NAMES == <<N_a, N_b, N_hid, N_f_pdf, N_f_txt, N_g_Docx, N_f1_pdf, N_hid_pdf,
           N_report, N_report_txt>>
NameRank(n) == CHOOSE i \in DOMAIN NAMES : NAMES[i] = n

\* Texts the converter returns: a heading, a blank line and three words
\* (the shape of the tests' fake converter), or a single word.
TokH == <<"#", "t">>
TokW == <<"w">>
DocA == << <<TokH>>, <<>>, <<TokW, TokW, TokW>> >>
DocB == << <<TokW>> >>

\* The text the converter makes of a file, fixed by the file's content.
DocOf(f) == IF ext_of(f) = <<"p", "d", "f">> THEN DocA ELSE DocB

\* What convert_local does on a file: returns a text, or raises.
ConvOk(md) == [ok |-> TRUE, markdown |-> md, err |-> NoneStr]
ConvFail(msg) == [ok |-> FALSE, markdown |-> <<>>, err |-> msg]

\* ------------------------------------------------------------------ state
VARIABLES
    src,            \* the source tree: [dirs, files, size, rev]
    converter,      \* per source file, what convert_local does on it
    ioerr,          \* the source files whose output cannot be written (OSError)
    opt,            \* bulk_convert's keyword arguments
    fs,             \* destination tree: file path -> content
    destDirs,       \* destination tree: the directories below the root
    pc,             \* "idle", "loop", "report", "done" or "raised"
    run,            \* number of the current run, 1..MaxRuns
    stats,          \* PreflightStats of the current run
    queue,          \* what _iter_files has still to yield
    results,        \* list of BulkFileResult
    converted, skipped, failed, total_words, total_headings,
    bulk,           \* the BulkResult returned, once pc = "done"
    raised,         \* the PreflightExceeded raised, once pc = "raised"
    log,            \* the run's observable events, in order
    fsStart,        \* fs when the current run began
    hist,           \* the outcomes (bulk or raised) of the earlier runs
    cand,           \* the argument of the latest call of _unique_path
    uniq,           \* what that call returned
    wr,             \* a call of _write_atomic in progress: its arguments and position
    seen,           \* what a concurrent reader of the final path has observed
    report,         \* what _make_report returned
    cli,            \* the command line of main and its exit code
    req,            \* the request POST /api/convert is handling
    web,            \* the handler's position, temporary files and response
    disk,           \* the file system two concurrent runs work on
    runs            \* the state of each of the two concurrent runs

envVars == <<src, converter, ioerr, opt>>
destVars == <<fs, destDirs>>
uniqVars == <<cand, uniq>>
accVars == <<results, converted, skipped, failed, total_words, total_headings>>
writeVars == <<wr, seen>>
webVars == <<req, web>>
pairVars == <<disk, runs>>
auxVars == <<wr, seen, report, cli, req, web, disk, runs>>
vars == <<src, converter, ioerr, opt, fs, destDirs, pc, run, stats, queue,
          results, converted, skipped, failed, total_words, total_headings,
          bulk, raised, log, fsStart, hist, cand, uniq,
          wr, seen, report, cli, req, web, disk, runs>>

\* ---------------------------------------------------------------- os.walk
\* A set of paths as the sequence in listing order of their last names.
RECURSIVE Listed(_, _)
Listed(S, rev) ==
    IF S = {} THEN <<>>
    ELSE LET first == CHOOSE p \in S : \A q \in S :
                          IF rev THEN NameRank(PathName(q)) <= NameRank(PathName(p))
                                 ELSE NameRank(PathName(p)) <= NameRank(PathName(q))
         IN  <<first>> \o Listed(S \ {first}, rev)

SubDirs(tree, d) == {c \in tree.dirs : c # <<>> /\ PathParent(c) = d}
FilesOf(tree, d) == {f \in tree.files : PathParent(f) = d}

\* os.walk(root), top-down, where the consumer prunes dirnames in place
\* (dirnames[:] = [d for d in dirnames if not d.startswith(".")]) when
\* prune holds: the sequence of [dirpath, filenames].
RECURSIVE os_walk(_, _, _)
RECURSIVE WalkAll(_, _, _)
os_walk(tree, top, prune) ==
    LET dirnames == Listed({c \in SubDirs(tree, top) :
                               ~(prune /\ StartsWithDot(PathName(c)))}, tree.rev)
    IN  <<[dirpath |-> top, filenames |-> Listed(FilesOf(tree, top), tree.rev)]>>
        \o WalkAll(tree, dirnames, prune)
WalkAll(tree, ds, prune) ==
    IF ds = <<>> THEN <<>>
    ELSE os_walk(tree, Head(ds), prune) \o WalkAll(tree, Tail(ds), prune)

\* The files of one directory that the walks keep.
KeptFiles(filenames, skip_hidden) ==
    SelectSeq(filenames, LAMBDA f : ~(skip_hidden /\ StartsWithDot(PathName(f))))

\* _iter_files(root, skip_hidden): the paths yielded, in order.
RECURSIVE YieldAll(_, _)
YieldAll(walk, skip_hidden) ==
    IF walk = <<>> THEN <<>>
    ELSE KeptFiles(Head(walk).filenames, skip_hidden) \o YieldAll(Tail(walk), skip_hidden)

\* _iter_files without line 58: hidden directories are descended into.
iter_files_unpruned(tree, skip_hidden) == YieldAll(os_walk(tree, <<>>, FALSE), skip_hidden)

iter_files(tree, skip_hidden) == YieldAll(os_walk(tree, <<>>, skip_hidden), skip_hidden)

\* os.stat(f).st_size summed; a file whose stat raises OSError (size -1
\* here) adds nothing.
RECURSIVE SumSizes(_, _)
SumSizes(tree, fseq) ==
    IF fseq = <<>> THEN 0
    ELSE (IF tree.size[Head(fseq)] >= 0 THEN tree.size[Head(fseq)] ELSE 0)
         + SumSizes(tree, Tail(fseq))

\* _preflight(root, skip_hidden)
RECURSIVE PreflightOver(_, _, _)
PreflightOver(tree, walk, skip_hidden) ==
    IF walk = <<>> THEN [dirs |-> 0, files |-> 0, bytes |-> 0]
    ELSE LET rest == PreflightOver(tree, Tail(walk), skip_hidden)
             kept == KeptFiles(Head(walk).filenames, skip_hidden)
         IN  [dirs |-> rest.dirs + 1,
              files |-> rest.files + Len(kept),
              bytes |-> rest.bytes + SumSizes(tree, kept)]

\* _preflight without line 71: hidden directories are walked and counted.
preflight_unpruned(tree, skip_hidden) ==
    PreflightOver(tree, os_walk(tree, <<>>, FALSE), skip_hidden)

preflight(tree, skip_hidden) ==
    PreflightOver(tree, os_walk(tree, <<>>, skip_hidden), skip_hidden)

\* --------------------------------------------------------- threshold gate
\* exceeded with >= for >.
Exceeded_nonstrict(st, th) ==
    \/ st.dirs >= th.max_dirs
    \/ st.files >= th.max_files
    \/ st.bytes >= th.max_bytes

\* exceeded, lines 209-213.
Exceeded(st, th) ==
    \/ st.dirs > th.max_dirs
    \/ st.files > th.max_files
    \/ st.bytes > th.max_bytes

\* The gate without the else branch of lines 218-220: no callback, no raise.
GateDenies_without_else(exceeded, confirm) ==
    exceeded /\ confirm = "deny"

\* Whether bulk_convert raises PreflightExceeded, lines 214-220.  confirm is
\* "none" (no callback), or the callback's answer "allow" or "deny".
GateDenies(exceeded, confirm) ==
    exceeded /\ (IF confirm # "none" THEN confirm # "allow" ELSE TRUE)

\* ------------------------------------------------------------ the loop body
\* include_ext / exclude_ext after lines 222-225.  An absent set (None) and
\* an empty one are both falsy; both are the empty set here.
Normalised(exts) == {LStripDot(Lower(e)) : e \in exts}

\* The two filter tests of lines 234 and 238, on the normalised sets.
FilteredOut(file, include_ext, exclude_ext) ==
    \/ (include_ext # {} /\ ext_of(file) \notin include_ext)
    \/ (exclude_ext # {} /\ ext_of(file) \in exclude_ext)

\* BulkFileResult
FileResult(s, d, st, reason, words, headings) ==
    [src |-> s, dest |-> d, status |-> st, reason |-> reason,
     words |-> words, headings |-> headings]

\* The directories dest_path.parent.mkdir(parents=True) makes sure of.
ParentDirs(p) == {SubSeq(p, 1, k) : k \in 1..(Len(p) - 1)}

\* _write_atomic writing through the final name itself, with no temporary file.
TmpOf_in_place(p) == p

\* The temporary sibling of _write_atomic: dest_path.with_suffix(suffix + ".tmp").
TmpOf(p) == WithSuffix(p, PathSuffix(PathName(p)) \o DotTmp)

\* _write_atomic(dest_path, data) when no step of it raises: the file tree after.
write_atomic(files, dest_path, data) ==
    [q \in (DOMAIN files \union {dest_path}) \ {TmpOf(dest_path)} |->
        IF q = dest_path THEN data ELSE files[q]]

\* Line 122 raises (FileExistsError) when an ancestor of dest_path is a file.
MkdirRaises(dest_path, files) == \E d \in ParentDirs(dest_path) : d \in files

\* Line 126 raises (IsADirectoryError) when dest_path is a directory.
ReplaceRaises(dest_path, dirs) == dest_path \in dirs

\* _write_atomic(dest_path, data) when os.replace raises: the temporary file
\* stays behind.
write_stranded(files, dest_path, data) ==
    [q \in DOMAIN files \union {TmpOf(dest_path)} |->
        IF q = TmpOf(dest_path) THEN data ELSE files[q]]

\* Content of a converted output.
MdContent(md) == [kind |-> "md", text |-> md]
\* Content of a file that was in the destination before the first run.
OldContent == [kind |-> "old", text |-> <<>>]

\* The message of the OSError a failing write raises.
EIO == "I/O error"
\* The message of the error mkdir raises on an ancestor that is a file.
EEXIST == "File exists"

Ev(kind, path) == [ev |-> kind, path |-> path]

\* final_out of lines 249-251.
FinalOut(out_path, on_conflict, files, dirs) ==
    IF on_conflict = "rename" THEN unique_path(out_path, files, dirs) ELSE out_path

\* Lines 252-255 left out: the skip policy never skips.
SkipsExisting_never(final_out, on_conflict, files, dirs) == FALSE

\* Lines 252-255: the skip policy's test.
SkipsExisting(final_out, on_conflict, files, dirs) ==
    on_conflict = "skip" /\ Exists(final_out, files, dirs)

\* One iteration of the loop of lines 233-266 on file: the outcome recorded,
\* the destination tree after it, the events it caused, and whether
\* _unique_path was called.
ProcessOne(file, o, conv, io, files, dirs) ==
    LET out_path == derive_output_path(file)
        doc == conv[file]
        Base(fr, evs) ==
            [fr |-> fr, fs |-> files, dirs |-> dirs, events |-> evs,
             resolved |-> FALSE, out_path |-> out_path, final_out |-> out_path]
        \* lines 249-261, once the converter has returned
        Resolved(final_out) ==
            IF SkipsExisting(final_out, o.on_conflict, DOMAIN files, dirs)
            THEN Base(FileResult(file, NonePath, "skipped", "exists", NoneInt, NoneInt),
                      <<Ev("convert", file)>>)
            ELSE IF MkdirRaises(final_out, DOMAIN files)
            THEN [fr |-> FileResult(file, NonePath, "failed", EEXIST, NoneInt, NoneInt),
                  fs |-> files, dirs |-> dirs,
                  events |-> <<Ev("convert", file)>>,
                  resolved |-> o.on_conflict = "rename",
                  out_path |-> out_path, final_out |-> final_out]
            ELSE IF file \in io
            THEN [fr |-> FileResult(file, NonePath, "failed", EIO, NoneInt, NoneInt),
                  fs |-> files, dirs |-> dirs \union ParentDirs(final_out),
                  events |-> <<Ev("convert", file)>>,
                  resolved |-> o.on_conflict = "rename",
                  out_path |-> out_path, final_out |-> final_out]
            ELSE [fr |-> FileResult(file, final_out, "converted", NoneStr,
                                    count_words_and_headings(doc.markdown).words,
                                    count_words_and_headings(doc.markdown).headings),
                  fs |-> write_atomic(files, final_out, MdContent(doc.markdown)),
                  dirs |-> dirs \union ParentDirs(final_out),
                  events |-> <<Ev("convert", file), Ev("write", final_out)>>,
                  resolved |-> o.on_conflict = "rename",
                  out_path |-> out_path, final_out |-> final_out]
    IN  IF FilteredOut(file, Normalised(o.include_ext), Normalised(o.exclude_ext))
        THEN Base(FileResult(file, NonePath, "skipped", "filtered", NoneInt, NoneInt),
                  <<>>)
        ELSE IF ~doc.ok
        THEN Base(FileResult(file, NonePath, "failed", doc.err, NoneInt, NoneInt),
                  <<Ev("convert", file)>>)
        ELSE Resolved(FinalOut(out_path, o.on_conflict, DOMAIN files, dirs))

\* The counters without line 254: a file skipped because its output exists
\* is recorded but not counted.
Tally_without_254(c, fr) ==
    [converted |-> c.converted + (IF fr.status = "converted" THEN 1 ELSE 0),
     skipped |-> c.skipped + (IF fr.status = "skipped" /\ fr.reason # "exists"
                              THEN 1 ELSE 0),
     failed |-> c.failed + (IF fr.status = "failed" THEN 1 ELSE 0),
     total_words |-> c.total_words + (IF fr.status = "converted" THEN fr.words ELSE 0),
     total_headings |-> c.total_headings
                        + (IF fr.status = "converted" THEN fr.headings ELSE 0)]

\* The counters after recording fr (lines 236, 240, 254, 259-261, 263).
Tally(c, fr) ==
    [converted |-> c.converted + (IF fr.status = "converted" THEN 1 ELSE 0),
     skipped |-> c.skipped + (IF fr.status = "skipped" THEN 1 ELSE 0),
     failed |-> c.failed + (IF fr.status = "failed" THEN 1 ELSE 0),
     total_words |-> c.total_words + (IF fr.status = "converted" THEN fr.words ELSE 0),
     total_headings |-> c.total_headings
                        + (IF fr.status = "converted" THEN fr.headings ELSE 0)]

\* Lines 265-266 with the test inverted: break when continue_on_error is set.
LoopContinues_inverted(fr, continue_on_error) ==
    ~(fr.status = "failed" /\ continue_on_error)

\* Lines 265-266 without the break.
LoopContinues_never_breaks(fr, continue_on_error) == TRUE

\* Whether the loop goes on after fr (lines 265-266: break).
LoopContinues(fr, continue_on_error) ==
    ~(fr.status = "failed" /\ ~continue_on_error)

\* ------------------------------------------------------------------ report
\* The error list with every outcome that was not converted, skipped ones too.
ErrorsOf_with_skipped(frs) ==
    [i \in DOMAIN SelectSeq(frs, LAMBDA fr : fr.status # "converted") |->
        [src |-> SelectSeq(frs, LAMBDA fr : fr.status # "converted")[i].src,
         reason |-> SelectSeq(frs, LAMBDA fr : fr.status # "converted")[i].reason]]

\* errors of lines 137, 149-150: (fr.src, fr.reason or "unknown error") of
\* every failed outcome; None and "" are the falsy reasons.
RECURSIVE ErrorsOf(_)
ErrorsOf(frs) ==
    IF frs = <<>> THEN <<>>
    ELSE (IF Head(frs).status = "failed"
          THEN <<[src |-> Head(frs).src,
                  reason |-> IF Head(frs).reason \in {NoneStr, ""}
                             THEN "unknown error" ELSE Head(frs).reason]>>
          ELSE <<>>) \o ErrorsOf(Tail(frs))

RECURSIVE SumWords(_)
SumWords(frs) ==
    IF frs = <<>> THEN 0 ELSE Head(frs).words + SumWords(Tail(frs))

RECURSIVE SumHeadings(_)
SumHeadings(frs) ==
    IF frs = <<>> THEN 0 ELSE Head(frs).headings + SumHeadings(Tail(frs))

\* _make_report(result): the numbers and lists the text is made of.
make_report(b) ==
    LET conv(fr) == fr.status = "converted" /\ fr.dest # NonePath
        done == SelectSeq(b.files, conv)
        sdirs == {PathParent(done[i].src) : i \in DOMAIN done}
        In(d) == SelectSeq(done, LAMBDA fr : PathParent(fr.src) = d)
    IN  [kind |-> "report",
         converted |-> b.converted, skipped |-> b.skipped, failed |-> b.failed,
         total_words |-> b.total_words, total_headings |-> b.total_headings,
         by_dir |-> [d \in sdirs |->
            [docs |-> Len(In(d)),
             words |-> SumWords(In(d)),
             headings |-> SumHeadings(In(d)),
             types |-> [e \in {ext_of(In(d)[i].src) : i \in DOMAIN In(d)} |->
                        Len(SelectSeq(In(d), LAMBDA fr : ext_of(fr.src) = e))]]],
         errors |-> ErrorsOf(b.files)]

\* BulkResult
BulkResult(files, c) ==
    [files |-> files, converted |-> c.converted, skipped |-> c.skipped,
     failed |-> c.failed, total_words |-> c.total_words,
     total_headings |-> c.total_headings]

ZeroCounts ==
    [converted |-> 0, skipped |-> 0, failed |-> 0, total_words |-> 0,
     total_headings |-> 0]
NoBulk == BulkResult(<<>>, ZeroCounts)
NoStats == [dirs |-> 0, files |-> 0, bytes |-> 0]
NoRaise == [stats |-> NoStats, thresholds |-> DefaultThresholds]

\* ----------------------------------------------------------------- actions
Counts == [converted |-> converted, skipped |-> skipped, failed |-> failed,
           total_words |-> total_words, total_headings |-> total_headings]

\* Lines 198-200: the root exists and is a directory.
RootIsDir(tree) == <<>> \in tree.dirs

\* Lines 198-200 on a root that does not exist: NotADirectoryError.
BadRoot ==
    /\ pc = "idle"
    /\ ~RootIsDir(src)
    /\ pc' = "not_a_directory"
    /\ UNCHANGED <<envVars, destVars, accVars, uniqVars, run, stats, queue, bulk, raised,
                   log, fsStart, hist, auxVars>>

\* What bulk_convert knows and where it goes after lines 202-231, on a source
\* root that is a directory: _preflight has run and the gate has decided.
StartOne(tree, o) ==
    LET st == preflight(tree, o.skip_hidden)
        exceeded == Exceeded(st, o.thresholds)
        asked == IF exceeded /\ o.confirm # "none"
                 THEN <<Ev("confirm", <<>>)>> ELSE <<>>
        todo == iter_files(tree, o.skip_hidden)
        denied == GateDenies(exceeded, o.confirm)
    IN  [stats |-> st,
         events |-> <<Ev("preflight", <<>>)>> \o asked,
         pc |-> IF denied THEN "raised" ELSE IF todo = <<>> THEN "report" ELSE "loop",
         queue |-> IF denied THEN <<>> ELSE todo]

\* bulk_convert up to the loop (lines 198-231): the roots are resolved, the
\* destination root is created, _preflight runs and the gate decides.
Start ==
    /\ pc = "idle"
    /\ RootIsDir(src)
    /\ \E r \in {StartOne(src, opt)} :
           /\ stats' = r.stats
           /\ log' = r.events
           /\ pc' = r.pc
           /\ queue' = r.queue
           /\ raised' = IF r.pc = "raised"
                        THEN [stats |-> r.stats, thresholds |-> opt.thresholds]
                        ELSE raised
    /\ UNCHANGED <<envVars, destVars, accVars, uniqVars, run, bulk, fsStart, hist,
                   auxVars>>

\* One iteration of the for loop (lines 233-266).
ProcessFile ==
    /\ pc = "loop"
    /\ \E r \in {ProcessOne(Head(queue), opt, converter, ioerr, fs, destDirs)} :
       \E c \in {Tally(Counts, r.fr)} :
           /\ results' = Append(results, r.fr)
           /\ converted' = c.converted
           /\ skipped' = c.skipped
           /\ failed' = c.failed
           /\ total_words' = c.total_words
           /\ total_headings' = c.total_headings
           /\ fs' = r.fs
           /\ destDirs' = r.dirs
           /\ log' = log \o r.events
           /\ queue' = Tail(queue)
           /\ cand' = IF r.resolved THEN r.out_path ELSE cand
           /\ uniq' = IF r.resolved THEN r.final_out ELSE uniq
           /\ pc' = IF LoopContinues(r.fr, opt.continue_on_error) /\ Tail(queue) # <<>>
                    THEN "loop" ELSE "report"
    /\ UNCHANGED <<envVars, run, stats, bulk, raised, fsStart, hist, auxVars>>

\* The destination after lines 268-283 and how the call ends: the report is
\* written outside the loop's try, so when the write raises bulk_convert
\* raises and returns no result.
FinishOne(frs, c, files, dirs) ==
    LET b == BulkResult(frs, c)
    IN  IF ReplaceRaises(<<N_report>>, dirs)
        THEN [pc |-> "oserror", bulk |-> NoBulk,
              fs |-> write_stranded(files, <<N_report>>, make_report(b)),
              events |-> <<>>]
        ELSE [pc |-> "done", bulk |-> b,
              fs |-> write_atomic(files, <<N_report>>, make_report(b)),
              events |-> <<Ev("write", <<N_report>>)>>]

\* Lines 268-283: the BulkResult is assembled, the report written, and the
\* result returned.
Finish ==
    /\ pc = "report"
    /\ \E r \in {FinishOne(results, Counts, fs, destDirs)} :
           /\ bulk' = IF r.pc = "done" THEN r.bulk ELSE bulk
           /\ fs' = r.fs
           /\ log' = log \o r.events
           /\ pc' = r.pc
    /\ UNCHANGED <<envVars, destDirs, accVars, uniqVars, run, stats, queue, raised,
                   fsStart, hist, auxVars>>

\* The caller calls bulk_convert again, with the same arguments, on the same
\* source tree and destination.
NextRun ==
    /\ pc \in {"done", "raised"}
    /\ run < MaxRuns
    /\ hist' = Append(hist, [outcome |-> pc, bulk |-> bulk, fsStart |-> fsStart])
    /\ run' = run + 1
    /\ pc' = "idle"
    /\ fsStart' = fs
    /\ stats' = NoStats
    /\ queue' = <<>>
    /\ results' = <<>>
    /\ converted' = 0 /\ skipped' = 0 /\ failed' = 0
    /\ total_words' = 0 /\ total_headings' = 0
    /\ bulk' = NoBulk
    /\ raised' = NoRaise
    /\ log' = <<>>
    /\ UNCHANGED <<envVars, destVars, uniqVars, auxVars>>

Next == Start \/ ProcessFile \/ Finish \/ NextRun

\* ------------------------------------------------------------ initial states
\* No call of _write_atomic on its own, of _make_report on its own, of main,
\* no request and no concurrent runs: the parts of the state that the
\* specifications of bulk_convert alone leave untouched.
NoWriter == [pc |-> "none"]
NoReport == [kind |-> "none"]
NoCli == [pc |-> "none"]
NoReq == [kind |-> "none"]
NoWeb == [pc |-> "none"]
NoDisk == [files |-> <<>>, dirs |-> {}]
InitNoWriter == wr = NoWriter /\ seen = {}
InitNoReport == report = NoReport
InitNoCli == cli = NoCli
InitNoWeb == req = NoReq /\ web = NoWeb
InitNoPair == disk = NoDisk /\ runs = <<>>
InitAux == InitNoWriter /\ InitNoReport /\ InitNoCli /\ InitNoWeb /\ InitNoPair

\* The state of a fresh call: nothing done yet.
InitRun ==
    /\ pc = "idle"
    /\ run = 1
    /\ stats = NoStats
    /\ queue = <<>>
    /\ results = <<>>
    /\ converted = 0 /\ skipped = 0 /\ failed = 0
    /\ total_words = 0 /\ total_headings = 0
    /\ bulk = NoBulk
    /\ raised = NoRaise
    /\ log = <<>>
    /\ hist = <<>>
    /\ fsStart = fs
    /\ cand = NonePath
    /\ uniq = NonePath

\* The directories a set of files needs, the root included.
DirsOf(F) == {<<>>} \union UNION {ParentDirs(f) : f \in F}

\* Source files of the conversion trees: f.pdf and f.txt derive the same
\* output f.md; g.Docx has a mixed-case extension; "f (1).pdf" carries a
\* numeric suffix.
ConvFiles == {<<N_f_pdf>>, <<N_f_txt>>, <<N_g_Docx>>, <<N_f1_pdf>>}
\* Files that may be in the destination beforehand.
OldFiles == {<<N_f_md>>, <<N_f1_md>>}
IncludeChoices == {{}, {<<".", "P", "D", "F">>}}
ExcludeChoices == {{}, {<<"d", "o", "c", "x">>}}

\* Conversions: trees of files in the root directory, with every converter
\* and write outcome, filter, conflict policy and error policy, and a
\* destination that may hold earlier outputs.  The thresholds are the
\* defaults, which such trees never exceed.
Init ==
    /\ \E F \in SUBSET ConvFiles :
         /\ Cardinality(F) <= MaxFiles
         /\ \E rev \in (IF Cardinality(F) > 1 THEN BOOLEAN ELSE {FALSE}) :
              src = [dirs |-> DirsOf(F), files |-> F, size |-> [f \in F |-> 5],
                     rev |-> rev]
         /\ \E bad \in SUBSET F :
              converter = [f \in F |-> IF f \in bad THEN ConvFail("boom")
                                                   ELSE ConvOk(DocOf(f))]
         /\ ioerr \in SUBSET {f \in F : converter[f].ok}
    /\ \E inc \in IncludeChoices, exc \in ExcludeChoices,
          oc \in {"rename", "skip"}, coe \in BOOLEAN :
         opt = [include_ext |-> inc, exclude_ext |-> exc, on_conflict |-> oc,
                continue_on_error |-> coe, thresholds |-> DefaultThresholds,
                confirm |-> "none", skip_hidden |-> TRUE]
    /\ \E S \in SUBSET OldFiles : fs = [q \in S |-> OldContent]
    /\ destDirs = {}
    /\ InitRun
    /\ InitAux

Spec == Init /\ [][Next]_vars

\* Source files of the gate's trees: in the root, in a directory, hidden,
\* in a hidden directory, and in a directory below a hidden one.
TreeFiles == {<<N_f_pdf>>, <<N_hid_pdf>>, <<N_a, N_f_pdf>>, <<N_hid, N_f_pdf>>,
              <<N_hid, N_b, N_f_pdf>>}
ThresholdChoices ==
    [max_dirs : {1, DefaultMaxDirs}, max_files : {1, DefaultMaxFiles},
     max_bytes : {10, DefaultMaxBytes}]

\* Traversal and gate: trees with directories and hidden entries, files of
\* 5 or 6 bytes or whose stat fails, every threshold, callback and
\* skip_hidden choice; the converter succeeds on every file.
InitTree ==
    /\ \E F \in SUBSET TreeFiles :
         /\ Cardinality(F) <= MaxFiles
         /\ \E sz \in [F -> {-1, 5, 6}] :
              src = [dirs |-> DirsOf(F), files |-> F, size |-> sz, rev |-> FALSE]
         /\ converter = [f \in F |-> ConvOk(DocOf(f))]
    /\ ioerr = {}
    /\ \E th \in ThresholdChoices, cf \in {"none", "deny", "allow"}, sh \in BOOLEAN :
         opt = [include_ext |-> {}, exclude_ext |-> {}, on_conflict |-> "rename",
                continue_on_error |-> TRUE, thresholds |-> th,
                confirm |-> cf, skip_hidden |-> sh]
    /\ fs = <<>>
    /\ destDirs = {}
    /\ InitRun
    /\ InitAux

SpecTree == InitTree /\ [][Next]_vars

\* ------------------------------------------------- _unique_path on its own
\* " (i)"
Sfx(i) == <<" ", "(">> \o Str(i) \o <<")">>

\* Output names with no, one or two numeric suffixes, and one whose
\* parenthesis has no space before it.
UStems ==
    {<<"f">>, <<"f", "(", "1", ")">>}
    \union {<<"f">> \o Sfx(i) : i \in 1..MaxSuffix}
    \union {<<"f">> \o Sfx(i) \o Sfx(j) : i, j \in 1..MaxSuffix}
UPaths == {<<st \o DotMd>> : st \in UStems}

\* A destination directory holding up to MaxExisting of these names, one of
\* them possibly a directory.
InitUnique ==
    /\ \E S \in SUBSET UPaths :
         /\ Cardinality(S) <= MaxExisting
         /\ \E D \in SUBSET S :
              /\ Cardinality(D) <= 1
              /\ destDirs = D
              /\ fs = [q \in S \ D |-> OldContent]
    /\ src = [dirs |-> {<<>>}, files |-> {}, size |-> <<>>, rev |-> FALSE]
    /\ converter = <<>>
    /\ ioerr = {}
    /\ opt = [include_ext |-> {}, exclude_ext |-> {}, on_conflict |-> "rename",
              continue_on_error |-> TRUE, thresholds |-> DefaultThresholds,
              confirm |-> "none", skip_hidden |-> TRUE]
    /\ pc = "unique"
    /\ run = 1
    /\ stats = NoStats
    /\ queue = <<>>
    /\ results = <<>>
    /\ converted = 0 /\ skipped = 0 /\ failed = 0
    /\ total_words = 0 /\ total_headings = 0
    /\ bulk = NoBulk
    /\ raised = NoRaise
    /\ log = <<>>
    /\ hist = <<>>
    /\ fsStart = fs
    /\ cand = NonePath
    /\ uniq = NonePath
    /\ InitAux

\* A call of _unique_path(p).
CallUnique ==
    /\ pc = "unique"
    /\ \E p \in UPaths :
         /\ cand' = p
         /\ uniq' = unique_path(p, DOMAIN fs, destDirs)
    /\ UNCHANGED <<envVars, destVars, accVars, pc, run, stats, queue, bulk, raised,
                   log, fsStart, hist, auxVars>>

NextUnique == CallUnique

SpecUnique == InitUnique /\ [][NextUnique]_vars

\* ------------------------------------------------------------------ claims
\* What the claims say of names, stated on the characters and not through
\* the model of the code.
\* stem ends with " (n)" for a number n.
EndsWithGroup(stem) ==
    \E k \in 1..Len(stem) :
        /\ Len(stem) - k >= 3
        /\ stem[k] = " " /\ stem[k + 1] = "(" /\ stem[Len(stem)] = ")"
        /\ \A m \in (k + 2)..(Len(stem) - 1) : stem[m] \in {DIGITS[d] : d \in DOMAIN DIGITS}
\* stem without its last " (n)".
StripGroup(stem) ==
    IF EndsWithGroup(stem)
    THEN SubSeq(stem, 1,
                (CHOOSE k \in 1..Len(stem) :
                    /\ stem[k] = " " /\ stem[k + 1] = "("
                    /\ \A m \in (k + 1)..Len(stem) : stem[m] # " ") - 1)
    ELSE stem
\* stem ends with " (n) (m)".
Doubled(stem) == EndsWithGroup(stem) /\ EndsWithGroup(StripGroup(stem))
OnDisk(p) == p \in DOMAIN fs \/ p \in destDirs
StemOf(p) == PathStem(p[Len(p)])

\* What _unique_path must return for cand: cand itself when it is free, else
\* "base (i).ext" for the lowest free i >= 1, base being cand's stem without
\* one trailing " (n)".
UniqueAsSpecified ==
    IF ~OnDisk(cand) THEN uniq = cand
    ELSE \E i \in 1..(MaxExisting + 1) :
            /\ uniq = <<StripGroup(StemOf(cand)) \o Sfx(i) \o DotMd>>
            /\ \A j \in 1..(i - 1) :
                  OnDisk(<<StripGroup(StemOf(cand)) \o Sfx(j) \o DotMd>>)

\* C7 as stated: the result of _unique_path is the candidate or the lowest
\* free "base (i)" name, does not exist, and a renamed result never ends in
\* a doubled suffix such as "file (1) (1)".
C7_Original ==
    (pc = "unique" /\ uniq # NonePath) =>
        /\ UniqueAsSpecified
        /\ ~OnDisk(uniq)
        /\ (OnDisk(cand) => ~Doubled(StemOf(uniq)))

\* C7 amended: the result of _unique_path is the candidate or the lowest free
\* "base (i)" name and does not exist; it ends in a doubled suffix exactly
\* when the candidate's own stem already does.
C7_UniquePath ==
    (pc = "unique" /\ uniq # NonePath) =>
        /\ UniqueAsSpecified
        /\ ~OnDisk(uniq)
        /\ (Doubled(StemOf(uniq)) <=> Doubled(StemOf(cand)))

\* C7's case: "f (1).md" exists, "f (1).md" is asked for, and the suffix is
\* replaced, not doubled.
C7_Witness ==
    /\ pc = "unique"
    /\ cand = <<N_f1_md>>
    /\ OnDisk(cand) /\ OnDisk(<<N_f_md>>)
    /\ uniq = <<<<"f">> \o Sfx(2) \o DotMd>>

\* The events of one kind in the current run's log.
EventsOf(kind) == {i \in DOMAIN log : log[i].ev = kind}
\* The positions of the outcomes recorded for source file f.
OutcomesOf(f) == {i \in DOMAIN results : results[i].src = f}
\* A path with a component whose name starts with ".".
HiddenPath(p) == \E i \in DOMAIN p : p[i] # <<>> /\ p[i][1] = "."
\* The source files the run has to deal with.
Visible(f) == ~(opt.skip_hidden /\ HiddenPath(f))

\* "exceeded" as the claim states it, on the statistics of the run.
OverThresholds ==
    \/ stats.dirs > opt.thresholds.max_dirs
    \/ stats.files > opt.thresholds.max_files
    \/ stats.bytes > opt.thresholds.max_bytes

\* C1: the gate.  Not exceeded: the run proceeds and confirm is not called.
\* Exceeded without a callback, or with a callback answering no:
\* PreflightExceeded with the run's stats and thresholds.  Exceeded and
\* confirmed: the run proceeds, and at its end every file of the traversal
\* is converted (the converter fails on none of them here).
C1_ThresholdGate ==
    pc \in {"loop", "report", "done", "raised"} =>
        /\ ~OverThresholds => (pc # "raised" /\ EventsOf("confirm") = {})
        /\ (OverThresholds /\ opt.confirm \in {"none", "deny"}) =>
              /\ pc = "raised"
              /\ raised = [stats |-> stats, thresholds |-> opt.thresholds]
        /\ (OverThresholds /\ opt.confirm = "allow") =>
              /\ pc # "raised"
              /\ Cardinality(EventsOf("confirm")) = 1
        /\ pc = "done" =>
              \A f \in src.files : Visible(f) =>
                 \E i \in DOMAIN bulk.files :
                    bulk.files[i].src = f /\ bulk.files[i].status = "converted"

\* C1's case: the thresholds are exceeded, the callback said yes, and the
\* run converted both files.
C1_Witness ==
    /\ pc = "done"
    /\ OverThresholds
    /\ opt.confirm = "allow"
    /\ bulk.converted = 2

\* The gate refuses the run: exceeded, and no callback that says yes.
Denied == OverThresholds /\ opt.confirm # "allow"

\* C2: the preflight is the first event of a run and happens once, the
\* callback is asked at most once and before any conversion or write, and a
\* refused run has called the converter on nothing and written nothing: the
\* destination holds no converted file and no report.
C2_GateBeforeWork ==
    pc \in {"loop", "report", "done", "raised"} =>
        /\ EventsOf("preflight") = {1}
        /\ EventsOf("confirm") \subseteq {2}
        /\ (Denied \/ pc = "raised") =>
              /\ EventsOf("convert") = {}
              /\ EventsOf("write") = {}
              /\ results = <<>>
              /\ fs = fsStart
              /\ DOMAIN fs = {}

\* C2's case: a tree of two files over the thresholds, the callback said no.
C2_Witness ==
    /\ pc = "raised"
    /\ opt.confirm = "deny"
    /\ Cardinality(src.files) = 2
    /\ log = <<Ev("preflight", <<>>), Ev("confirm", <<>>)>>

RECURSIVE SizeSum(_)
SizeSum(F) ==
    IF F = {} THEN 0
    ELSE LET f == CHOOSE g \in F : TRUE
         IN  (IF src.size[f] >= 0 THEN src.size[f] ELSE 0) + SizeSum(F \ {f})

\* C9: with skip_hidden, a source path that is hidden or lies below a hidden
\* directory gets no outcome, no conversion and no output file or directory,
\* and the preflight counts only the files, bytes and directories that are
\* not hidden.
C9_HiddenExcluded ==
    (opt.skip_hidden /\ pc \in {"loop", "report", "done", "raised"}) =>
        /\ \A f \in src.files : HiddenPath(f) =>
              /\ OutcomesOf(f) = {}
              /\ \A i \in EventsOf("convert") : log[i].path # f
        /\ \A q \in DOMAIN fs \union destDirs : ~HiddenPath(q)
        /\ stats.files = Cardinality({f \in src.files : ~HiddenPath(f)})
        /\ stats.bytes = SizeSum({f \in src.files : ~HiddenPath(f)})
        /\ stats.dirs = Cardinality({d \in src.dirs : ~HiddenPath(d)})

\* C9's case: a file below a hidden directory and a hidden file; the run is
\* over and neither was counted.
C9_Witness ==
    /\ pc = "done"
    /\ opt.skip_hidden
    /\ src.files = {<<N_hid, N_b, N_f_pdf>>, <<N_hid_pdf>>}
    /\ stats = [dirs |-> 1, files |-> 0, bytes |-> 0]

\* ------------------------------------------- claims about the conversions
Candidates == {f \in src.files : Visible(f)}
StatusCount(frs, st) == Cardinality({i \in DOMAIN frs : frs[i].status = st})

RECURSIVE ConvertedWords(_)
ConvertedWords(frs) ==
    IF frs = <<>> THEN 0
    ELSE (IF Head(frs).status = "converted" THEN Head(frs).words ELSE 0)
         + ConvertedWords(Tail(frs))

RECURSIVE ConvertedHeadings(_)
ConvertedHeadings(frs) ==
    IF frs = <<>> THEN 0
    ELSE (IF Head(frs).status = "converted" THEN Head(frs).headings ELSE 0)
         + ConvertedHeadings(Tail(frs))

\* C3: the BulkResult returned agrees with its own list of outcomes: the
\* three counters count the outcomes of each status, so they add up to the
\* list's length, and total_words and total_headings are the sums over the
\* converted outcomes.
C3_ResultConsistent ==
    pc = "done" =>
        /\ bulk.converted = StatusCount(bulk.files, "converted")
        /\ bulk.skipped = StatusCount(bulk.files, "skipped")
        /\ bulk.failed = StatusCount(bulk.files, "failed")
        /\ bulk.converted + bulk.skipped + bulk.failed = Len(bulk.files)
        /\ bulk.total_words = ConvertedWords(bulk.files)
        /\ bulk.total_headings = ConvertedHeadings(bulk.files)

\* C3's case: a result with a converted file, and a file skipped because its
\* output exists.
C3_Witness ==
    /\ pc = "done"
    /\ bulk.converted = 1
    /\ bulk.skipped = 1
    /\ \E i \in DOMAIN bulk.files : bulk.files[i].reason = "exists"
    /\ bulk.total_words > 0

\* C4 as stated: in every run that returns, converted + skipped + failed is
\* the number of candidate files, each with exactly one outcome.
C4_Original ==
    pc = "done" =>
        /\ bulk.converted + bulk.skipped + bulk.failed = Cardinality(Candidates)
        /\ \A f \in Candidates :
              Cardinality({i \in DOMAIN bulk.files : bulk.files[i].src = f}) = 1

\* C4 amended: no file has two outcomes and every outcome is a candidate's;
\* with continue_on_error, or when no file failed, the three counters add up
\* to the number of candidates; a run that stopped at a failure
\* (continue_on_error false) has one outcome for each file traversed up to
\* and including the failing one, and none for the files after it.
C4_OutcomePerFile ==
    pc = "done" =>
        /\ \A f \in src.files :
              Cardinality({i \in DOMAIN bulk.files : bulk.files[i].src = f})
                 = (IF f \in Candidates /\ \A i \in DOMAIN queue : queue[i] # f
                    THEN 1 ELSE 0)
        /\ (opt.continue_on_error \/ bulk.failed = 0) =>
              /\ queue = <<>>
              /\ bulk.converted + bulk.skipped + bulk.failed = Cardinality(Candidates)
        /\ (~opt.continue_on_error /\ bulk.failed > 0) =>
              bulk.converted + bulk.skipped + bulk.failed
                 = Cardinality(Candidates) - Len(queue)

\* C4's case: the run stopped at a failure and left a file without outcome.
C4_Witness ==
    /\ pc = "done"
    /\ ~opt.continue_on_error
    /\ bulk.failed = 1
    /\ Len(queue) = 1
    /\ Cardinality(Candidates) = 2

\* Two characters equal up to case.
SameLetter(c, d) ==
    c = d \/ \E i \in DOMAIN UPPER : {c, d} = {UPPER[i], LOWER[i]}
\* The extension e of a filter set names the extension of file f: e without
\* its leading dots is, up to case, what follows the last dot of f's name
\* (nothing, when the name has no dot after its first character).
NamesExtOf(e, f) ==
    LET n == f[Len(f)]
        dots == {k \in 2..(Len(n) - 1) : n[k] = "."}
        last == IF dots = {} THEN Len(n)
                ELSE CHOOSE k \in dots : \A m \in dots : m <= k
        lead == Cardinality({k \in DOMAIN e : \A m \in 1..k : e[m] = "."})
    IN  /\ Len(e) - lead = Len(n) - last
        /\ \A k \in 1..(Len(n) - last) : SameLetter(e[lead + k], n[last + k])
\* The filter of the claim: f is not in a non-empty include_ext, or is in
\* exclude_ext.
ShouldFilter(f) ==
    \/ (opt.include_ext # {} /\ ~\E e \in opt.include_ext : NamesExtOf(e, f))
    \/ \E e \in opt.exclude_ext : NamesExtOf(e, f)
\* Positions of the last failed outcome, if any.
FailedAt == {i \in DOMAIN results : results[i].status = "failed"}
\* The writes of converted outputs in the log (the report's is the last
\* event of a finished run).
OutputWrites ==
    {i \in EventsOf("write") : ~(pc = "done" /\ i = Len(log))}

\* C5: a file on which the converter raises, or whose output cannot be
\* written, is recorded as failed with no dest and the error's text as
\* reason, and the run goes on to return a result.  With continue_on_error
\* every candidate gets its outcome; without it the first failure ends the
\* loop: the failed outcome is the last one, failed is 1, and the files
\* after it are neither converted nor written.
C5_FailureIsolation ==
    /\ \A i \in DOMAIN results :
          LET fr == results[i]
          IN  /\ (~ShouldFilter(fr.src) /\ ~converter[fr.src].ok) =>
                    /\ fr.status = "failed"
                    /\ fr.dest = NonePath
                    /\ fr.reason = converter[fr.src].err
              /\ fr.status = "failed" =>
                    /\ fr.dest = NonePath
                    /\ fr.reason = (IF converter[fr.src].ok THEN EIO
                                    ELSE converter[fr.src].err)
                    /\ (converter[fr.src].ok => fr.src \in ioerr)
              /\ (fr.status = "converted") => (converter[fr.src].ok /\ fr.src \notin ioerr)
    /\ (pc = "done" /\ opt.continue_on_error) =>
          \A f \in Candidates : OutcomesOf(f) # {}
    /\ (~opt.continue_on_error /\ FailedAt # {}) =>
          /\ FailedAt = {Len(results)}
          /\ failed = 1
          /\ pc \in {"report", "done"}
          /\ \A j \in DOMAIN queue :
                /\ OutcomesOf(queue[j]) = {}
                /\ \A k \in EventsOf("convert") : log[k].path # queue[j]
          /\ Cardinality(EventsOf("convert")) <= Len(results)
          /\ Cardinality(OutputWrites) = converted
    /\ pc = "done" => bulk.files = results

\* C5's case: the first file was converted, the write of the second failed,
\* continue_on_error is off, and the run returned.
C5_Witness ==
    /\ pc = "done"
    /\ ~opt.continue_on_error
    /\ Len(bulk.files) = 2
    /\ bulk.files[1].status = "converted"
    /\ bulk.files[2].status = "failed"
    /\ bulk.files[2].reason = EIO

\* C10: a file whose extension (compared without case, the filter's leading
\* dots dropped) is not in a non-empty include_ext, or is in exclude_ext, is
\* recorded skipped/"filtered", the converter is not called on it and nothing
\* is written for it; on every other file the converter is called.  With
\* include_ext naming pdf only, one .pdf and one .docx source give one file
\* converted and one skipped as "filtered".
C10_ExtensionFilter ==
    /\ \A i \in DOMAIN results :
          LET fr == results[i]
          IN  IF ShouldFilter(fr.src)
              THEN /\ fr.status = "skipped" /\ fr.reason = "filtered"
                   /\ fr.dest = NonePath
                   /\ \A k \in EventsOf("convert") : log[k].path # fr.src
              ELSE /\ fr.reason # "filtered"
                   /\ \E k \in EventsOf("convert") : log[k].path = fr.src
    /\ Cardinality(OutputWrites) = converted
    /\ (/\ pc = "done"
        /\ opt.include_ext = {<<".", "P", "D", "F">>}
        /\ src.files = {<<N_f_pdf>>, <<N_g_Docx>>}
        /\ converter[<<N_f_pdf>>].ok /\ <<N_f_pdf>> \notin ioerr
        /\ (opt.on_conflict = "skip" => <<N_f_md>> \notin DOMAIN fsStart)) =>
          /\ bulk.converted = 1
          /\ bulk.skipped = 1
          /\ \E i \in DOMAIN bulk.files :
                /\ bulk.files[i].src = <<N_g_Docx>>
                /\ bulk.files[i].status = "skipped"
                /\ bulk.files[i].reason = "filtered"

\* C10's case: include_ext is ".PDF", the tree holds f.pdf and g.Docx, and the
\* run converted one and filtered the other.
C10_Witness ==
    /\ pc = "done"
    /\ opt.include_ext = {<<".", "P", "D", "F">>}
    /\ opt.exclude_ext = {}
    /\ src.files = {<<N_f_pdf>>, <<N_g_Docx>>}
    /\ bulk.converted = 1
    /\ bulk.skipped = 1

\* ------------------------------------------------ claims about repeated runs
\* The previous run of the same call.
Prev == hist[Len(hist)]
\* The destination's files before the first run.
Fs0 == IF hist = <<>> THEN fsStart ELSE hist[1].fsStart
\* The paths the current run wrote that were there when it began.
Overwritten == {log[i].path : i \in {j \in EventsOf("write") : log[j].path \in DOMAIN fsStart}}
ConvertedIn(frs, f) == \E i \in DOMAIN frs : frs[i].src = f /\ frs[i].status = "converted"
SecondSkipRun ==
    /\ pc = "done"
    /\ opt.on_conflict = "skip"
    /\ hist # <<>>
    /\ Prev.outcome = "done"

\* C6 as stated: under on_conflict = "skip" the second run converts nothing,
\* every file the first run converted is skipped, all its outcomes are
\* skipped, and it overwrites no file of the destination.
C6_Original ==
    SecondSkipRun =>
        /\ bulk.converted = 0
        /\ \A f \in src.files : ConvertedIn(Prev.bulk.files, f) =>
              \E i \in DOMAIN bulk.files :
                 bulk.files[i].src = f /\ bulk.files[i].status = "skipped"
        /\ \A i \in DOMAIN bulk.files : bulk.files[i].status = "skipped"
        /\ Overwritten = {}

\* C6 amended: under on_conflict = "skip", with a converter and a file system
\* that behave in the second run as in the first, the second run converts
\* nothing; every file the first run converted is skipped with reason
\* "exists"; every other outcome is skipped, or failed for a file that
\* failed in the first run too; and the run changes no file of the
\* destination except process_report.md, which it writes again.
C6_SkipIdempotent ==
    SecondSkipRun =>
        /\ bulk.converted = 0
        /\ \A f \in src.files : ConvertedIn(Prev.bulk.files, f) =>
              \E i \in DOMAIN bulk.files :
                 /\ bulk.files[i].src = f
                 /\ bulk.files[i].status = "skipped"
                 /\ bulk.files[i].reason = "exists"
        /\ \A i \in DOMAIN bulk.files :
              \/ bulk.files[i].status = "skipped"
              \/ /\ bulk.files[i].status = "failed"
                 /\ \E j \in DOMAIN Prev.bulk.files :
                       /\ Prev.bulk.files[j].src = bulk.files[i].src
                       /\ Prev.bulk.files[j].status = "failed"
        /\ Overwritten = {<<N_report>>}
        /\ DOMAIN fs = DOMAIN fsStart
        /\ \A q \in DOMAIN fsStart \ {<<N_report>>} : fs[q] = fsStart[q]

\* C6's case: the first run converted a file and failed on another; the
\* second run skipped the first and failed on the other again.
C6_Witness ==
    /\ SecondSkipRun
    /\ Prev.bulk.converted = 1
    /\ Prev.bulk.failed = 1
    /\ bulk.skipped = 1
    /\ bulk.failed = 1

\* The source file of C8's scenario: its stem carries no " (n)", its output
\* name was in the destination before the first run with no numbered
\* variant of it, no other source file derives the same output name, and
\* every run so far converted it.
RenameScenario(f) ==
    /\ opt.on_conflict = "rename"
    /\ ~EndsWithGroup(StemOf(f))
    /\ PathParent(f) \o <<StemOf(f) \o DotMd>> \in DOMAIN Fs0
    /\ \A q \in DOMAIN Fs0 :
          ~(EndsWithGroup(StemOf(q)) /\ StripGroup(StemOf(q)) = StemOf(f))
    /\ \A g \in src.files \ {f} : StripGroup(StemOf(g)) # StemOf(f)
    /\ ConvertedIn(bulk.files, f)
    /\ \A k \in DOMAIN hist : ConvertedIn(hist[k].bulk.files, f)

\* C8: under on_conflict = "rename", when file.md is there already, the k-th
\* run writes file (k).md for file.txt; and every run leaves the content of
\* each file that was there when it began unchanged (process_report.md
\* aside) and writes each converted output under a name that was free.
C8_RenameRuns ==
    /\ (pc = "done" /\ opt.on_conflict = "rename") =>
          /\ \A f \in src.files : RenameScenario(f) =>
                \E i \in DOMAIN bulk.files :
                   /\ bulk.files[i].src = f
                   /\ bulk.files[i].dest = PathParent(f) \o <<StemOf(f) \o Sfx(run) \o DotMd>>
                   /\ bulk.files[i].dest \in DOMAIN fs
          /\ Cardinality(DOMAIN fs \ (DOMAIN fsStart \union {<<N_report>>}))
                = bulk.converted
    /\ opt.on_conflict = "rename" =>
          /\ \A q \in DOMAIN fsStart \ {<<N_report>>} :
                q \in DOMAIN fs /\ fs[q] = fsStart[q]
          /\ \A i \in DOMAIN results : results[i].status = "converted" =>
                results[i].dest \notin DOMAIN fsStart

\* C8's case: f.md was there, and the second run wrote "f (2).md" for f.txt
\* beside the first run's "f (1).md".
C8_Witness ==
    /\ pc = "done"
    /\ run = 2
    /\ src.files = {<<N_f_txt>>}
    /\ RenameScenario(<<N_f_txt>>)
    /\ bulk.files[1].dest = <<<<"f">> \o Sfx(2) \o DotMd>>
    /\ DOMAIN fs = {<<N_f_md>>, <<N_f1_md>>, <<<<"f">> \o Sfx(2) \o DotMd>>, <<N_report>>}

\* ----------------------------------------------- _write_atomic step by step
\* What a file holds once the first k lines of data have reached it.
Prefix(data, k) == MdContent(SubSeq(data, 1, k))

\* What open(path).read() gives a reader: the file's content, or that there
\* is no file, or that path is a directory.
Absent == [kind |-> "absent", text |-> <<>>]
IsDir == [kind |-> "dir", text |-> <<>>]
Observed(files, dirs, p) ==
    IF p \in dirs THEN IsDir
    ELSE IF p \in DOMAIN files THEN files[p] ELSE Absent

\* What a call of _write_atomic on its own leaves alone.
notWrite == <<envVars, accVars, uniqVars, pc, run, stats, queue, bulk, raised, log,
              fsStart, hist, report, cli, webVars, pairVars>>

\* Line 122: dest_path.parent.mkdir(parents=True, exist_ok=True).
WMkdir ==
    /\ wr.pc = "mkdir"
    /\ destDirs' = destDirs \union ParentDirs(wr.dest_path)
    /\ wr' = [wr EXCEPT !.pc = "open"]
    /\ UNCHANGED <<fs, seen, notWrite>>

\* Line 124: io.open(tmp, "w") creates the temporary file, or empties it.
WOpen ==
    /\ wr.pc = "open"
    /\ fs' = [q \in DOMAIN fs \union {TmpOf(wr.dest_path)} |->
                IF q = TmpOf(wr.dest_path) THEN Prefix(wr.data, 0) ELSE fs[q]]
    /\ wr' = [wr EXCEPT !.pc = "write"]
    /\ UNCHANGED <<destDirs, seen, notWrite>>

\* Line 125: f.write(data); the text reaches the file one piece at a time.
WWrite ==
    /\ wr.pc = "write"
    /\ wr.written < Len(wr.data)
    /\ fs' = [fs EXCEPT ![TmpOf(wr.dest_path)] = Prefix(wr.data, wr.written + 1)]
    /\ wr' = [wr EXCEPT !.written = wr.written + 1]
    /\ UNCHANGED <<destDirs, seen, notWrite>>

\* The end of the with block of lines 124-125: the file is closed, all of
\* data is in it.
WClose ==
    /\ wr.pc = "write"
    /\ wr.written = Len(wr.data)
    /\ wr' = [wr EXCEPT !.pc = "replace"]
    /\ UNCHANGED <<fs, destDirs, seen, notWrite>>

\* Line 126: os.replace(tmp, dest_path), one step of the file system; it
\* raises when dest_path is a directory.
WReplace ==
    /\ wr.pc = "replace"
    /\ IF wr.dest_path \in destDirs
       THEN /\ wr' = [wr EXCEPT !.pc = "raised"]
            /\ fs' = fs
       ELSE /\ wr' = [wr EXCEPT !.pc = "done"]
            /\ fs' = [q \in (DOMAIN fs \union {wr.dest_path}) \ {TmpOf(wr.dest_path)} |->
                        IF q = wr.dest_path THEN fs[TmpOf(wr.dest_path)] ELSE fs[q]]
    /\ UNCHANGED <<destDirs, seen, notWrite>>

\* The writing process dies before its next step.
WCrash ==
    /\ wr.pc \in {"mkdir", "open", "write", "replace"}
    /\ wr' = [wr EXCEPT !.pc = "crashed"]
    /\ UNCHANGED <<fs, destDirs, seen, notWrite>>

\* Another process reads the final path.
Read ==
    /\ wr.pc # "none"
    /\ seen' = seen \union {Observed(fs, destDirs, wr.dest_path)}
    /\ UNCHANGED <<fs, destDirs, wr, notWrite>>

NextWrite == WMkdir \/ WOpen \/ WWrite \/ WClose \/ WReplace \/ WCrash \/ Read

\* The paths _write_atomic is called with: an output in the root, one in a
\* directory still to be made, and the report.
WritePaths == {<<N_f_md>>, <<N_a, N_f_md>>, <<N_report>>}
\* The texts written: three lines, one line, and the empty text.
WriteTexts == {DocA, DocB, <<>>}

\* A call of _write_atomic(dest_path, data) on a destination where
\* dest_path is free, or an older file, or a directory, where a temporary
\* file left by an earlier crash may lie, and with another output beside.
InitWrite ==
    /\ \E p \in WritePaths, d \in WriteTexts :
         /\ wr = [pc |-> "mkdir", dest_path |-> p, data |-> d, written |-> 0]
         /\ \E old \in {"free", "file", "dir"}, stale \in BOOLEAN :
              /\ destDirs = IF old = "dir" THEN {p} ELSE {}
              /\ fs = [q \in {<<N_f1_md>>}
                            \union (IF old = "file" THEN {p} ELSE {})
                            \union (IF stale THEN {TmpOf(p)} ELSE {}) |->
                        IF q = TmpOf(p) /\ q # p THEN Prefix(DocA, 1) ELSE OldContent]
    /\ seen = {}
    /\ src = [dirs |-> {<<>>}, files |-> {}, size |-> <<>>, rev |-> FALSE]
    /\ converter = <<>>
    /\ ioerr = {}
    /\ opt = [include_ext |-> {}, exclude_ext |-> {}, on_conflict |-> "rename",
              continue_on_error |-> TRUE, thresholds |-> DefaultThresholds,
              confirm |-> "none", skip_hidden |-> TRUE]
    /\ pc = "write_atomic"
    /\ run = 1
    /\ stats = NoStats
    /\ queue = <<>>
    /\ results = <<>>
    /\ converted = 0 /\ skipped = 0 /\ failed = 0
    /\ total_words = 0 /\ total_headings = 0
    /\ bulk = NoBulk
    /\ raised = NoRaise
    /\ log = <<>>
    /\ hist = <<>>
    /\ fsStart = fs
    /\ cand = NonePath
    /\ uniq = NonePath
    /\ InitNoReport /\ InitNoCli /\ InitNoWeb /\ InitNoPair

SpecWrite == InitWrite /\ [][NextWrite]_vars

\* What the final path held before the call, what it holds now, and what
\* the call is to put there.
OldView == Observed(fsStart, destDirs, wr.dest_path)
FinalView == Observed(fs, destDirs, wr.dest_path)
NewView == MdContent(wr.data)

\* C11: while _write_atomic runs, and after it has crashed at any step, the
\* final path holds what it held before (no file, the old file) or all of
\* the new text, and so does every observation of a reader; the new text is
\* under the final name only once the call has passed os.replace, with the
\* temporary file written in full; a call that returns leaves the new text
\* under the final name and no temporary file; and no other file changes.
C11_AtomicWrite ==
    wr.pc # "none" =>
        /\ FinalView \in {OldView, NewView}
        /\ seen \subseteq {OldView, NewView}
        /\ FinalView = NewView => (wr.pc = "done" /\ wr.written = Len(wr.data))
        /\ wr.pc = "done" =>
              /\ FinalView = NewView
              /\ fs = write_atomic(fsStart, wr.dest_path, NewView)
        /\ \A q \in DOMAIN fsStart \ {wr.dest_path, TmpOf(wr.dest_path)} :
              q \in DOMAIN fs /\ fs[q] = fsStart[q]

\* C11's case: the writer died with one line of three in the temporary
\* file, and a reader of the final path saw the old file.
C11_Witness ==
    /\ wr.pc = "crashed"
    /\ Len(wr.data) = 3
    /\ wr.written = 1
    /\ fs[TmpOf(wr.dest_path)] = Prefix(wr.data, 1)
    /\ seen = {OldContent}

\* ------------------------------------------------- _make_report on its own
\* bulk_convert is not running: an empty source tree and destination, and
\* pc at p.
InitNoBulk(p) ==
    /\ src = [dirs |-> {<<>>}, files |-> {}, size |-> <<>>, rev |-> FALSE]
    /\ converter = <<>>
    /\ ioerr = {}
    /\ opt = [include_ext |-> {}, exclude_ext |-> {}, on_conflict |-> "rename",
              continue_on_error |-> TRUE, thresholds |-> DefaultThresholds,
              confirm |-> "none", skip_hidden |-> TRUE]
    /\ fs = <<>>
    /\ destDirs = {}
    /\ pc = p
    /\ run = 1
    /\ stats = NoStats
    /\ queue = <<>>
    /\ results = <<>>
    /\ converted = 0 /\ skipped = 0 /\ failed = 0
    /\ total_words = 0 /\ total_headings = 0
    /\ raised = NoRaise
    /\ log = <<>>
    /\ hist = <<>>
    /\ fsStart = fs
    /\ cand = NonePath
    /\ uniq = NonePath

\* The outcomes bulk_convert records: converted, skipped for either reason,
\* and failed with the text of the error, str(e), which is empty for an
\* exception raised without a message.
ReportOutcomes ==
    {FileResult(<<N_f_pdf>>, <<N_f_md>>, "converted", NoneStr,
                count_words_and_headings(DocA).words,
                count_words_and_headings(DocA).headings),
     FileResult(<<N_a, N_f_txt>>, <<N_a, N_f_md>>, "converted", NoneStr,
                count_words_and_headings(DocB).words,
                count_words_and_headings(DocB).headings),
     FileResult(<<N_g_Docx>>, NonePath, "skipped", "filtered", NoneInt, NoneInt),
     FileResult(<<N_f_txt>>, NonePath, "skipped", "exists", NoneInt, NoneInt),
     FileResult(<<N_f_txt>>, NonePath, "failed", "boom", NoneInt, NoneInt),
     FileResult(<<N_f1_pdf>>, NonePath, "failed", EIO, NoneInt, NoneInt),
     FileResult(<<N_a, N_f_pdf>>, NonePath, "failed", "", NoneInt, NoneInt)}

\* The counters bulk_convert keeps for a list of outcomes.
RECURSIVE TallyAll(_, _)
TallyAll(c, frs) ==
    IF frs = <<>> THEN c ELSE TallyAll(Tally(c, Head(frs)), Tail(frs))

\* A BulkResult of up to MaxOutcomes outcomes, as bulk_convert assembles it.
InitReport ==
    /\ \E n \in 0..MaxOutcomes : \E frs \in [1..n -> ReportOutcomes] :
         bulk = BulkResult(frs, TallyAll(ZeroCounts, frs))
    /\ report = NoReport
    /\ InitNoBulk("make_report")
    /\ InitNoWriter /\ InitNoCli /\ InitNoWeb /\ InitNoPair

\* A call of _make_report(result).
CallReport ==
    /\ pc = "make_report"
    /\ report = NoReport
    /\ report' = make_report(bulk)
    /\ UNCHANGED <<envVars, destVars, accVars, uniqVars, pc, run, stats, queue, bulk,
                   raised, log, fsStart, hist, writeVars, cli, webVars, pairVars>>

NextReport == CallReport

SpecReport == InitReport /\ [][NextReport]_vars

\* The failed outcomes of a list, in the order of the list.
FailedOutcomes(frs) == SelectSeq(frs, LAMBDA fr : fr.status = "failed")
\* The report's summary numbers are the BulkResult's fields.
SummaryMatches ==
    /\ report.converted = bulk.converted
    /\ report.skipped = bulk.skipped
    /\ report.failed = bulk.failed
    /\ report.total_words = bulk.total_words
    /\ report.total_headings = bulk.total_headings

\* C12 as stated: the summary numbers are the BulkResult's, and the error
\* list is the failed outcomes in order, each once, with its source path and
\* its recorded reason, and nothing else.
C12_Original ==
    report # NoReport =>
        /\ SummaryMatches
        /\ Len(report.errors) = Len(FailedOutcomes(bulk.files))
        /\ \A i \in DOMAIN report.errors :
              /\ report.errors[i].src = FailedOutcomes(bulk.files)[i].src
              /\ report.errors[i].reason = FailedOutcomes(bulk.files)[i].reason

\* C12 amended: the same, except that a failed outcome whose recorded reason
\* is empty is listed with the reason "unknown error".
C12_ReportContent ==
    report # NoReport =>
        /\ SummaryMatches
        /\ Len(report.errors) = Len(FailedOutcomes(bulk.files))
        /\ \A i \in DOMAIN report.errors :
              /\ report.errors[i].src = FailedOutcomes(bulk.files)[i].src
              /\ report.errors[i].reason =
                    (IF FailedOutcomes(bulk.files)[i].reason = ""
                     THEN "unknown error"
                     ELSE FailedOutcomes(bulk.files)[i].reason)

\* C12's case: a converted file between two failed ones, the second with
\* an empty reason; the error list has the two, in that order.
C12_Witness ==
    /\ report # NoReport
    /\ bulk.converted = 1 /\ bulk.failed = 2
    /\ bulk.files[2].status = "converted"
    /\ report.errors = <<[src |-> <<N_f_txt>>, reason |-> "boom"],
                         [src |-> <<N_a, N_f_pdf>>, reason |-> "unknown error"]>>

\* ------------------------------------------ main of bulk_converter/__main__
\* str.strip(): leading and trailing blanks dropped.
RECURSIVE LStrip(_)
LStrip(t) == IF t # <<>> /\ Head(t) = " " THEN LStrip(Tail(t)) ELSE t
RECURSIVE RStrip(_)
RStrip(t) ==
    IF t # <<>> /\ t[Len(t)] = " " THEN RStrip(SubSeq(t, 1, Len(t) - 1)) ELSE t
Strip(t) == RStrip(LStrip(t))

\* _prompt_confirm: what input() gave, or that it raised EOFError.
prompt_confirm(answer) ==
    IF answer.eof THEN FALSE
    ELSE Lower(Strip(answer.text)) \in {<<"y">>, <<"y", "e", "s">>}

\* The confirm callback of lines 51-58.
cli_confirm(args, answer) == IF args.yes THEN TRUE ELSE prompt_confirm(answer)

\* Line 76 with "and" for "or".
exit_code_and(outcome, failed_count, no_continue_on_error) ==
    IF outcome = "done"
    THEN (IF failed_count = 0 /\ ~no_continue_on_error THEN 0 ELSE 1)
    ELSE IF outcome = "raised" THEN 2 ELSE 1

\* What main returns, lines 76-82: outcome is how bulk_convert ended.
exit_code(outcome, failed_count, no_continue_on_error) ==
    IF outcome = "done"
    THEN (IF failed_count = 0 \/ ~no_continue_on_error THEN 0 ELSE 1)
    ELSE IF outcome = "raised" THEN 2 ELSE 1

\* Lines 45-49: the thresholds of the command line.
cli_thresholds(args) ==
    [max_dirs |-> args.threshold_dirs, max_files |-> args.threshold_files,
     max_bytes |-> args.threshold_mb * 1024 * 1024]

\* Lines 74-82: bulk_convert has returned or raised, and main returns.
CliExit ==
    /\ cli.pc = "called"
    /\ pc \in {"done", "raised", "not_a_directory", "oserror"}
    /\ cli' = [cli EXCEPT !.pc = "exited",
                          !.code = exit_code(pc, bulk.failed, cli.args.no_continue_on_error)]
    /\ UNCHANGED <<envVars, destVars, accVars, uniqVars, pc, run, stats, queue, bulk,
                   raised, log, fsStart, hist, writeVars, report, webVars, pairVars>>

NextCli == BadRoot \/ Start \/ ProcessFile \/ Finish \/ CliExit

\* Source trees of the command line: a file in the root, one in a
\* directory, and one in a directory that has the report's name.
CliFiles == {<<N_f_pdf>>, <<N_a, N_f_txt>>, <<N_report, N_f_pdf>>}
\* --threshold-dirs, --threshold-files, --threshold-mb: the defaults, one
\* file at most, no byte at most.
ThresholdArgs == {<<16, 128, 300>>, <<16, 1, 300>>, <<16, 128, 0>>}
\* What the user types at the prompt, or the end of the input.
CliAnswers ==
    {[eof |-> TRUE, text |-> <<>>], [eof |-> FALSE, text |-> <<>>],
     [eof |-> FALSE, text |-> <<"y">>], [eof |-> FALSE, text |-> <<" ", "Y", "e", "s", " ">>],
     [eof |-> FALSE, text |-> <<"n">>], [eof |-> FALSE, text |-> <<"y", "e", "a", "h">>]}

\* main(argv) with a command line that argparse accepts: root is a directory
\* tree or does not exist.
InitCli ==
    /\ \E yes \in BOOLEAN, nc \in BOOLEAN, th \in ThresholdArgs, ans \in CliAnswers :
         /\ cli = [pc |-> "called", code |-> NoneInt, answer |-> ans,
                   args |-> [yes |-> yes, no_continue_on_error |-> nc,
                             threshold_dirs |-> th[1], threshold_files |-> th[2],
                             threshold_mb |-> th[3]]]
         /\ opt = [include_ext |-> {}, exclude_ext |-> {}, on_conflict |-> "rename",
                   continue_on_error |-> ~nc, thresholds |-> cli_thresholds(cli.args),
                   confirm |-> IF cli_confirm(cli.args, ans) THEN "allow" ELSE "deny",
                   skip_hidden |-> TRUE]
    /\ \E exists \in BOOLEAN : \E F \in SUBSET CliFiles :
         /\ Cardinality(F) <= MaxFiles
         /\ ~exists => F = {}
         /\ src = [dirs |-> IF exists THEN DirsOf(F) ELSE {}, files |-> F,
                   size |-> [f \in F |-> 5], rev |-> FALSE]
         /\ \E bad \in SUBSET F :
              converter = [f \in F |-> IF f \in bad THEN ConvFail("boom")
                                                   ELSE ConvOk(DocOf(f))]
    /\ ioerr = {}
    /\ fs = <<>>
    /\ destDirs = {}
    /\ InitRun
    /\ InitNoWriter /\ InitNoReport /\ InitNoWeb /\ InitNoPair

SpecCli == InitCli /\ [][NextCli]_vars

\* The user agreed: --yes, or an answer that is y or yes.
CliConfirmed ==
    \/ cli.args.yes
    \/ /\ ~cli.answer.eof
       /\ cli.answer.text \in {<<"y">>, <<" ", "Y", "e", "s", " ">>}

ChunkSize == 1024 * 1024
\* WebConfig.max_upload_bytes
max_upload_bytes(config) == config.max_upload_mb * 1024 * 1024

\* require_api_key with the test for a missing or empty header left out.
Unauthorized_unless_given(x_api_key, api_key) ==
    x_api_key \notin {NoneStr, ""} /\ x_api_key # api_key

\* require_api_key, line 54: not x_api_key or x_api_key != config.api_key.
\* A header that was not sent is None.
Unauthorized(x_api_key, api_key) ==
    x_api_key \in {NoneStr, ""} \/ x_api_key # api_key

\* Line 187: the declared length is over the limit.
DeclaredTooLarge(content_length, max) ==
    content_length # NoneInt /\ content_length > max

\* Line 199 testing the file after the write: tmp.tell() > max.
ChunkTooLarge_after(tell, chunk, max) == tell > max

\* Line 199: tmp.tell() + len(chunk) > max.
ChunkTooLarge(tell, chunk, max) == tell + chunk > max

\* str.endswith(sfx)
EndsWith(t, sfx) ==
    Len(t) >= Len(sfx) /\ SubSeq(t, Len(t) - Len(sfx) + 1, Len(t)) = sfx

\* Line 204: (file.filename or "").lower().endswith(".zip"); a request
\* without a file name has the empty name here.
is_zip(filename) == EndsWith(Lower(filename), <<".", "z", "i", "p">>)

\* The response of http_exception_handler (lines 57-59) to HTTPException.
ErrorResponse(w, status) ==
    [w EXCEPT !.pc = "responded", !.status = status, !.code = status]

\* What the handling of a request leaves alone.
notWeb == <<envVars, destVars, accVars, uniqVars, pc, run, stats, queue, bulk,
            raised, log, fsStart, hist, writeVars, report, cli, pairVars, req>>

\* The dependency require_api_key (lines 53-55), run before the handler.
WAuth ==
    /\ web.pc = "auth"
    /\ web' = IF Unauthorized(req.x_api_key, web.config.api_key)
              THEN ErrorResponse(web, 401)
              ELSE [web EXCEPT !.pc = "length"]
    /\ UNCHANGED notWeb

\* Lines 186-188.
WCheckLength ==
    /\ web.pc = "length"
    /\ web' = IF DeclaredTooLarge(req.content_length, max_upload_bytes(web.config))
              THEN ErrorResponse(web, 413)
              ELSE [web EXCEPT !.pc = "open"]
    /\ UNCHANGED notWeb

\* Lines 192-193: the temporary file of the upload is created.
WOpenTmp ==
    /\ web.pc = "open"
    /\ web' = [web EXCEPT !.pc = "read", !.tmp = @ \union {"upload"},
                          !.made = @ \union {"upload"}]
    /\ UNCHANGED notWeb

\* One turn of the loop of lines 194-201, and what follows it when it ends
\* the request: HTTPException passes the except of line 267 and the finally
\* of lines 272-277 unlinks the temporary file.
WReadChunk ==
    /\ web.pc = "read"
    /\ \E chunk \in {IF web.unread < ChunkSize THEN web.unread ELSE ChunkSize} :
         web' = IF chunk = 0 THEN [web EXCEPT !.pc = "decide"]
                ELSE IF ChunkTooLarge(web.tell, chunk, max_upload_bytes(web.config))
                THEN [ErrorResponse(web, 413) EXCEPT !.tmp = @ \ {"upload"}]
                ELSE [web EXCEPT !.tell = @ + chunk, !.unread = @ - chunk]
    /\ UNCHANGED notWeb

\* Lines 262-289: a single file is converted by converter.convert_uri; an
\* error of the converter is answered 400; the temporary file is unlinked.
WConvertSingle ==
    /\ web.pc = "decide"
    /\ ~is_zip(req.filename)
    /\ web' = [(IF req.conv_ok
                THEN [web EXCEPT !.pc = "responded", !.status = 200]
                ELSE ErrorResponse(web, 400))
               EXCEPT !.calls_single = @ + 1, !.tmp = @ \ {"upload"}]
    /\ UNCHANGED notWeb

\* Lines 205-261: an archive is unpacked into a temporary directory,
\* bulk_convert runs into another, the destination is packed into a
\* temporary zip file, which is read into the response; any error is
\* answered 400; the two directories and the upload are removed.
WConvertBulk ==
    /\ web.pc = "decide"
    /\ is_zip(req.filename)
    /\ web' =
         IF ~req.zip_ok
         THEN [ErrorResponse(web, 400) EXCEPT
                  !.made = @ \union {"extract_dir", "dest_dir"},
                  !.tmp = @ \ {"upload"}]
         ELSE IF GateDenies(req.exceeds, IF req.confirm = "true" THEN "allow" ELSE "deny")
         THEN [ErrorResponse(web, 400) EXCEPT
                  !.made = @ \union {"extract_dir", "dest_dir"},
                  !.calls_bulk = @ + 1,
                  !.tmp = @ \ {"upload"}]
         ELSE [web EXCEPT
                  !.pc = "responded", !.status = 200,
                  !.made = @ \union {"extract_dir", "dest_dir", "out_zip"},
                  !.calls_bulk = @ + 1,
                  !.tmp = (@ \ {"upload"}) \union {"out_zip"}]
    /\ UNCHANGED notWeb

NextWeb ==
    WAuth \/ WCheckLength \/ WOpenTmp \/ WReadChunk \/ WConvertSingle \/ WConvertBulk

\* The x-api-key headers: not sent, empty, another key, the configured key.
ApiKeys == {NoneStr, "", "wrong", "secret"}
\* Sizes of the uploaded file and declared lengths, around one and two chunks.
BodySizes == {0, ChunkSize - 1, ChunkSize, ChunkSize + 1, 2 * ChunkSize + 1}
DeclaredLengths == {NoneInt, ChunkSize, 2 * ChunkSize, 2 * ChunkSize + 1}
FileNames == {<<>>, <<"a", ".", "t", "x", "t">>, <<"A", ".", "Z", "i", "p">>}

\* A request to POST /api/convert, on an application configured with the
\* key "secret" and a limit of one or two MiB.
InitWeb ==
    /\ req \in [x_api_key : ApiKeys, content_length : DeclaredLengths,
                 size : BodySizes, filename : FileNames, conv_ok : BOOLEAN,
                 zip_ok : BOOLEAN, exceeds : BOOLEAN,
                 confirm : {"none", "true", "false"}]
    /\ \E mb \in {1, 2} :
         web = [pc |-> "auth", config |-> [api_key |-> "secret", max_upload_mb |-> mb],
                tmp |-> {}, made |-> {}, tell |-> 0, unread |-> req.size,
                status |-> NoneInt, code |-> NoneInt,
                calls_single |-> 0, calls_bulk |-> 0]
    /\ bulk = NoBulk
    /\ InitNoBulk("web")
    /\ InitNoWriter /\ InitNoReport /\ InitNoCli /\ InitNoPair

SpecWeb == InitWeb /\ [][NextWeb]_vars

\* The limit of the application, in bytes.
UploadLimit == web.config.max_upload_mb * 1024 * 1024
\* The request carries the configured key.
KeyAccepted == req.x_api_key = web.config.api_key
\* The request declares a Content-Length over the limit.
DeclaredOver == req.content_length # NoneInt /\ req.content_length > UploadLimit
\* The size of the chunk the handler reads next.
NextChunk ==
    IF req.size - web.tell < ChunkSize THEN req.size - web.tell ELSE ChunkSize

\* C14: of the requests that carry the key.  One that declares a
\* Content-Length over the limit is answered 413 with no temporary file
\* created and no byte stored.  While the upload is streamed the temporary
\* file never holds more than the limit, and an upload larger than the limit
\* is answered 413 at the first chunk that would take the file over it.  A
\* request answered 413 has reached neither converter.
C14_UploadLimit ==
    /\ web.tell <= UploadLimit
    /\ (KeyAccepted /\ DeclaredOver /\ web.pc # "auth") =>
          /\ web.pc \in {"length", "responded"}
          /\ web.pc = "responded" => (web.status = 413 /\ web.code = 413)
          /\ web.made = {} /\ web.tell = 0
          /\ web.calls_single = 0 /\ web.calls_bulk = 0
    /\ (KeyAccepted /\ ~DeclaredOver /\ req.size > UploadLimit) =>
          /\ web.pc # "decide"
          /\ web.calls_single = 0 /\ web.calls_bulk = 0
          /\ web.pc = "responded" =>
                /\ web.status = 413 /\ web.code = 413
                /\ web.tell + NextChunk > UploadLimit
    /\ web.status = 413 => (web.calls_single = 0 /\ web.calls_bulk = 0)

\* C14's case: no length declared, a limit of one MiB and an upload of one
\* byte more: the first chunk was stored, the second answered 413.
C14_Witness ==
    /\ web.pc = "responded"
    /\ web.status = 413
    /\ req.content_length = NoneInt
    /\ req.size = ChunkSize + 1
    /\ web.tell = ChunkSize
    /\ web.made = {"upload"}

\* The header is missing, empty, or not the configured key.
KeyRefused ==
    \/ req.x_api_key = NoneStr
    \/ req.x_api_key = ""
    \/ req.x_api_key # web.config.api_key

\* C15: a request whose x-api-key is missing, empty or not the configured
\* key is answered 401, with code 401 in the body; no temporary file is
\* made for it, nothing of it is stored and no converter is called; only a
\* request with the configured key gets as far as a temporary file or a
\* converter.
C15_ApiKey ==
    /\ KeyRefused =>
          /\ web.pc \in {"auth", "responded"}
          /\ web.pc = "responded" => (web.status = 401 /\ web.code = 401)
          /\ web.made = {} /\ web.tmp = {} /\ web.tell = 0
          /\ web.calls_single = 0 /\ web.calls_bulk = 0
    /\ (web.made # {} \/ web.calls_single > 0 \/ web.calls_bulk > 0) =>
          req.x_api_key = web.config.api_key

\* C15's case: no key was sent, with a declared length over the limit; the
\* answer is 401.
C15_Witness ==
    /\ web.pc = "responded"
    /\ req.x_api_key = NoneStr
    /\ req.content_length > UploadLimit
    /\ web.status = 401

\* ------------------------------------------- claims about the conflict test
\* The destination path derived for source file f: f with its extension
\* replaced by ".md".
DerivedDest(f) == PathParent(f) \o <<StemOf(f) \o DotMd>>
\* The derived destination of the i-th outcome's file was there when the
\* file was processed: from the start of the run, or written earlier in it.
DestExisted(i) ==
    \/ DerivedDest(results[i].src) \in DOMAIN fsStart
    \/ \E j \in 1..(i - 1) : results[j].dest = DerivedDest(results[i].src)

\* C16: under on_conflict = "skip", a file that passes the extension filter
\* and whose derived destination exists is recorded skipped with reason
\* "exists", the converter is not called on it and nothing is written for
\* it, whether the converter would succeed on it or fail.
C16_ConflictBeforeConversion ==
    opt.on_conflict = "skip" =>
        \A i \in DOMAIN results :
            (DestExisted(i) /\ ~ShouldFilter(results[i].src)) =>
                /\ results[i].status = "skipped"
                /\ results[i].reason = "exists"
                /\ \A k \in EventsOf("convert") : log[k].path # results[i].src
                /\ \A k \in EventsOf("write") :
                      log[k].path # DerivedDest(results[i].src)

\* ------------------------------------------- source names and the report
\* Source files whose names meet the report's: process_report.txt derives
\* the output process_report.md, and a directory named process_report.md is
\* mirrored into the destination root; beside them a file in the root and
\* one in a directory.
NamesFiles == {<<N_f_pdf>>, <<N_report_txt>>, <<N_report, N_f_pdf>>, <<N_a, N_f_txt>>}

\* Runs on such trees, with every converter outcome, conflict policy and
\* error policy, into a destination that is empty or holds an older
\* process_report.md.
InitNames ==
    /\ \E F \in SUBSET NamesFiles :
         /\ Cardinality(F) <= MaxFiles
         /\ src = [dirs |-> DirsOf(F), files |-> F, size |-> [f \in F |-> 5],
                   rev |-> FALSE]
         /\ \E bad \in SUBSET F :
              converter = [f \in F |-> IF f \in bad THEN ConvFail("boom")
                                                   ELSE ConvOk(DocOf(f))]
    /\ ioerr = {}
    /\ \E oc \in {"rename", "skip"}, coe \in BOOLEAN :
         opt = [include_ext |-> {}, exclude_ext |-> {}, on_conflict |-> oc,
                continue_on_error |-> coe, thresholds |-> DefaultThresholds,
                confirm |-> "none", skip_hidden |-> TRUE]
    /\ \E S \in SUBSET {<<N_report>>} : fs = [q \in S |-> OldContent]
    /\ destDirs = {}
    /\ InitRun
    /\ InitAux

SpecNames == InitNames /\ [][Next]_vars

\* The run has passed the gate.
PastGate == pc \in {"loop", "report", "done", "oserror"}
\* The number of times this run has written the report: its writes to
\* process_report.md that are not the write of a converted output.
ReportWrites ==
    Cardinality({k \in EventsOf("write") : log[k].path = <<N_report>>})
    - Cardinality({i \in DOMAIN results :
                     results[i].status = "converted" /\ results[i].dest = <<N_report>>})

\* C17: a run that has passed the gate goes on to write process_report.md
\* and to return its result: it does not raise; the report is not written
\* while outcomes are still being recorded; and when the result is returned
\* the report has been written once, its write is the last thing that
\* happened, the result holds the outcomes recorded, and the report's
\* numbers and error list are those of these outcomes.  So also for a tree without files and for a run stopped
\* early.
C17_ReportTiming ==
    PastGate =>
        /\ pc # "oserror"
        /\ pc \in {"loop", "report"} => ReportWrites = 0
        /\ pc = "done" =>
              /\ log[Len(log)] = Ev("write", <<N_report>>)
              /\ bulk.files = results
              /\ ReportWrites = 1
              /\ fs[<<N_report>>].kind = "report"
              /\ fs[<<N_report>>].converted = StatusCount(results, "converted")
              /\ fs[<<N_report>>].skipped = StatusCount(results, "skipped")
              /\ fs[<<N_report>>].failed = StatusCount(results, "failed")
              /\ Len(fs[<<N_report>>].errors) = StatusCount(results, "failed")

\* C20: when bulk_convert returns, every converted outcome's dest is a file
\* of the destination holding the text the converter made of its source,
\* and the converted outcomes have pairwise distinct dests.
C20_OutputsSurvive ==
    pc = "done" =>
        /\ \A i \in DOMAIN bulk.files : bulk.files[i].status = "converted" =>
              /\ bulk.files[i].dest \in DOMAIN fs
              /\ fs[bulk.files[i].dest] = MdContent(converter[bulk.files[i].src].markdown)
        /\ \A i, j \in DOMAIN bulk.files :
              (/\ i # j
               /\ bulk.files[i].status = "converted"
               /\ bulk.files[j].status = "converted") =>
                  bulk.files[i].dest # bulk.files[j].dest

\* C19: the number of files _preflight reports is the number of paths
\* _iter_files yields: in a run that has passed the gate, the outcomes
\* recorded and the files still to come add up to stats.files, and with
\* continue_on_error the result returned has stats.files outcomes.
C19_PreflightAgrees ==
    pc \in {"loop", "report", "done"} =>
        /\ stats.files = Len(results) + Len(queue)
        /\ (pc = "done" /\ opt.continue_on_error) =>
              /\ queue = <<>>
              /\ Len(bulk.files) = stats.files

\* C19's case: with skip_hidden, a file in the root and one in a hidden
\* directory; the preflight counted one file and the result has one outcome.
C19_Witness ==
    /\ pc = "done"
    /\ opt.skip_hidden
    /\ src.files = {<<N_f_pdf>>, <<N_hid, N_f_pdf>>}
    /\ stats.files = 1
    /\ Len(bulk.files) = 1

\* ---------------------------------------------------------------------------
\* Two invocations of bulk_convert on one file system
\* ---------------------------------------------------------------------------

N_out1 == <<"o", "1">>
N_out2 == <<"o", "2">>
\* The process's working directory, against which relative arguments resolve.
CWD == << <<"w">> >>

\* Path(dest).resolve() (line 202), dest given relative to the working
\* directory.
resolve(p) == CWD \o p

\* q lies inside the directory root.
Under(q, root) ==
    /\ Len(q) > Len(root)
    /\ SubSeq(q, 1, Len(root)) = root

Rel(q, root) == SubSeq(q, Len(root) + 1, Len(q))

\* What a run sees of the file system through dest_root / ... (lines 90-93,
\* 112-118, 121-126, 281): the files and directories inside its root, by
\* their paths relative to it.
View(d, root) ==
    [files |-> [r \in {Rel(q, root) : q \in {x \in DOMAIN d.files : Under(x, root)}}
                  |-> d.files[root \o r]],
     dirs |-> {Rel(q, root) : q \in {x \in d.dirs : Under(x, root)}}]

Merge_into_first(d, root, files, dirs) ==
    LET first == resolve(<<N_out1>>)
        keep == {q \in DOMAIN d.files : ~Under(q, first)}
        mine == {first \o r : r \in DOMAIN files}
    IN  [files |-> [q \in keep \union mine |->
                      IF q \in mine THEN files[Rel(q, first)] ELSE d.files[q]],
         dirs |-> {q \in d.dirs : ~Under(q, first)} \union {first \o r : r \in dirs}]

\* The file system after a run has left files and dirs inside its root:
\* every path it touches is dest_root / <relative path>.
Merge(d, root, files, dirs) ==
    LET keep == {q \in DOMAIN d.files : ~Under(q, root)}
        mine == {root \o r : r \in DOMAIN files}
    IN  [files |-> [q \in keep \union mine |->
                      IF q \in mine THEN files[Rel(q, root)] ELSE d.files[q]],
         dirs |-> {q \in d.dirs : ~Under(q, root)} \union {root \o r : r \in dirs}]

\* The paths on which two file systems differ.
Changed(d, e) ==
    {q \in DOMAIN d.files \union DOMAIN e.files :
        \/ q \notin DOMAIN d.files
        \/ q \notin DOMAIN e.files
        \/ d.files[q] # e.files[q]}
    \union ((d.dirs \ e.dirs) \union (e.dirs \ d.dirs))

Runs == {1, 2}
Other(i) == 3 - i
Active(i) == runs[i].pc \in {"loop", "report"}
dest_root(i) == resolve(runs[i].dest)

pairFrame == <<envVars, destVars, pc, run, stats, queue, accVars, bulk, raised,
               log, fsStart, hist, uniqVars, writeVars, report, cli, webVars>>

\* Lines 198-231 of run i: dest_root is resolved and created, _preflight runs,
\* the gate decides.
PStart(i) ==
    /\ runs # <<>>
    /\ runs[i].pc = "idle"
    /\ RootIsDir(src)
    /\ \E r \in {StartOne(src, runs[i].opt)} :
       \E d \in {[disk EXCEPT !.dirs = @ \union {dest_root(i)}]} :
           /\ disk' = d
           /\ runs' = [runs EXCEPT ![i] =
                         [@ EXCEPT !.pc = r.pc, !.stats = r.stats, !.queue = r.queue,
                                   !.wrote = @ \union Changed(disk, d),
                                   !.overlapped = @ \/ Active(Other(i))]]
    /\ UNCHANGED pairFrame

\* One iteration of run i's loop (lines 233-266).
PProcessFile(i) ==
    /\ runs # <<>>
    /\ runs[i].pc = "loop"
    /\ \E v \in {View(disk, dest_root(i))} :
       \E r \in {ProcessOne(Head(runs[i].queue), runs[i].opt, converter, ioerr,
                            v.files, v.dirs)} :
       \E d \in {Merge(disk, dest_root(i), r.fs, r.dirs)} :
           /\ disk' = d
           /\ runs' = [runs EXCEPT ![i] =
                 [@ EXCEPT !.results = Append(@, r.fr),
                           !.counts = Tally(@, r.fr),
                           !.queue = Tail(@),
                           !.pc = IF /\ LoopContinues(r.fr, runs[i].opt.continue_on_error)
                                     /\ Tail(runs[i].queue) # <<>>
                                  THEN "loop" ELSE "report",
                           !.wrote = @ \union Changed(disk, d),
                           !.overlapped = @ \/ Active(Other(i))]]
    /\ UNCHANGED pairFrame

\* Lines 268-283 of run i.
PFinish(i) ==
    /\ runs # <<>>
    /\ runs[i].pc = "report"
    /\ \E v \in {View(disk, dest_root(i))} :
       \E r \in {FinishOne(runs[i].results, runs[i].counts, v.files, v.dirs)} :
       \E d \in {Merge(disk, dest_root(i), r.fs, v.dirs)} :
           /\ disk' = d
           /\ runs' = [runs EXCEPT ![i] =
                 [@ EXCEPT !.pc = r.pc, !.bulk = r.bulk,
                           !.wrote = @ \union Changed(disk, d),
                           !.overlapped = @ \/ Active(Other(i))]]
    /\ UNCHANGED pairFrame

NextPair ==
    \/ \E i \in Runs : PStart(i)
    \/ \E i \in Runs : PProcessFile(i)
    \/ \E i \in Runs : PFinish(i)

PairFiles == {<<N_f_pdf>>, <<N_f_txt>>, <<N_a, N_f_txt>>}

\* Destination arguments of the second call: a root of its own, the first
\* call's root, a directory inside the first call's root.
PairDests == {<<N_out2>>, <<N_out1>>, <<N_out1, N_a>>}

PairOpt(oc, coe) ==
    [include_ext |-> {}, exclude_ext |-> {}, on_conflict |-> oc,
     continue_on_error |-> coe, thresholds |-> DefaultThresholds,
     confirm |-> "none", skip_hidden |-> TRUE]

PairOpts == {PairOpt("rename", TRUE), PairOpt("skip", FALSE)}

NewRun(dest, o, d) ==
    [dest |-> dest, opt |-> o, pc |-> "idle", start |-> View(d, resolve(dest)),
     stats |-> NoStats, queue |-> <<>>, results |-> <<>>, counts |-> ZeroCounts,
     bulk |-> NoBulk, wrote |-> {}, overlapped |-> FALSE]

InitPair ==
    /\ \E F \in SUBSET PairFiles :
         /\ Cardinality(F) <= MaxFiles
         /\ src = [dirs |-> DirsOf(F), files |-> F, size |-> [f \in F |-> 5],
                   rev |-> FALSE]
         /\ \E bad \in SUBSET F :
              converter = [f \in F |-> IF f \in bad THEN ConvFail("boom")
                                                   ELSE ConvOk(DocOf(f))]
    /\ ioerr = {}
    /\ opt = PairOpt("rename", TRUE)
    /\ fs = <<>>
    /\ destDirs = {}
    /\ pc = "pair"
    /\ run = 1
    /\ stats = NoStats
    /\ queue = <<>>
    /\ results = <<>>
    /\ converted = 0 /\ skipped = 0 /\ failed = 0
    /\ total_words = 0 /\ total_headings = 0
    /\ bulk = NoBulk
    /\ raised = NoRaise
    /\ log = <<>>
    /\ hist = <<>>
    /\ fsStart = fs
    /\ cand = NonePath
    /\ uniq = NonePath
    /\ InitNoWriter /\ InitNoReport /\ InitNoCli /\ InitNoWeb
    /\ \E d2 \in PairDests, o1 \in PairOpts, o2 \in PairOpts :
       \E S \in SUBSET {resolve(<<N_out1>>), resolve(d2)} :
           /\ disk = [files |-> [q \in {r \o <<N_f_md>> : r \in S} |-> OldContent],
                      dirs |-> {CWD} \union UNION {{SubSeq(r, 1, k) : k \in 1..Len(r)}
                                                     : r \in S}]
           /\ runs = [i \in Runs |-> IF i = 1 THEN NewRun(<<N_out1>>, o1, disk)
                                              ELSE NewRun(d2, o2, disk)]

SpecPair == InitPair /\ [][NextPair]_vars

\* The destination and the result of a loop that nothing interleaves with.
RECURSIVE LoopAlone(_, _, _, _, _, _)
LoopAlone(q, o, files, dirs, frs, c) ==
    IF q = <<>>
    THEN [files |-> files, dirs |-> dirs, frs |-> frs, c |-> c]
    ELSE LET r == ProcessOne(Head(q), o, converter, ioerr, files, dirs)
         IN  IF LoopContinues(r.fr, o.continue_on_error)
             THEN LoopAlone(Tail(q), o, r.fs, r.dirs, Append(frs, r.fr), Tally(c, r.fr))
             ELSE [files |-> r.fs, dirs |-> r.dirs, frs |-> Append(frs, r.fr),
                   c |-> Tally(c, r.fr)]

\* How run i ends, and what it leaves inside its root, when it is the only
\* one running on the file system it started from.
RunAlone(i) ==
    LET s == StartOne(src, runs[i].opt)
        l == LoopAlone(s.queue, runs[i].opt, runs[i].start.files, runs[i].start.dirs,
                       <<>>, ZeroCounts)
        f == FinishOne(l.frs, l.c, l.files, l.dirs)
    IN  IF s.pc = "raised"
        THEN [pc |-> "raised", bulk |-> NoBulk, files |-> runs[i].start.files,
              dirs |-> runs[i].start.dirs]
        ELSE [pc |-> f.pc, bulk |-> f.bulk, files |-> f.fs, dirs |-> l.dirs]

\* Neither root is the other or inside the other.
DistinctRoots ==
    \A i \in Runs :
        /\ dest_root(i) # dest_root(Other(i))
        /\ ~Under(dest_root(i), dest_root(Other(i)))

Returned(i) == runs[i].pc \in {"done", "oserror", "raised"}

\* C18: two interleaved calls of bulk_convert whose destination roots are
\* distinct and not nested each end as they would alone -- same BulkResult,
\* same files and directories inside the own root -- and neither changes a
\* path inside the other's root, nor the other root itself.
C18_Independent ==
    (runs # <<>> /\ DistinctRoots) =>
        \A i \in Runs :
            /\ Returned(i) =>
                 \E a \in {RunAlone(i)}, v \in {View(disk, dest_root(i))} :
                     /\ runs[i].pc = a.pc
                     /\ runs[i].bulk = a.bulk
                     /\ v.files = a.files
                     /\ v.dirs = a.dirs
            /\ \A q \in runs[i].wrote :
                   /\ ~Under(q, dest_root(Other(i)))
                   /\ q # dest_root(Other(i))
            /\ runs[i].pc = "idle" => View(disk, dest_root(i)) = runs[i].start

\* Both calls have returned after steps taken while the other was between its
\* gate and its return; each converted a file, one of them into a root that
\* already held the derived name.
C18_Witness ==
    /\ runs # <<>>
    /\ DistinctRoots
    /\ \A i \in Runs :
         /\ runs[i].pc = "done"
         /\ runs[i].overlapped
         /\ runs[i].bulk.converted >= 1
    /\ \E i \in Runs : runs[i].start.files # <<>>

\* ---------------------------------------------------------------------------
\* POST /api/convert: the temporary files of a request
\* ---------------------------------------------------------------------------

\* C21: when a request to POST /api/convert has been answered, with any
\* outcome, every temporary file and directory the handler created for it --
\* the stored upload, the extraction directory, the bulk destination
\* directory, the packed result zip -- has been removed.
C21_TempsRemoved ==
    web.pc = "responded" => web.tmp = {}

====
